---- MODULE Spec2Model ----
(***************************************************************************)
(* The circuit breaker of apiratorjs/circuit-breaker: the CircuitBreaker   *)
(* class (constructor, execute, attemptToExecute, onSuccess, onFailure,    *)
(* setState, reset) and its error types.  One breaker object, a clock,     *)
(* the execute calls made on it (each with the operation it was given),    *)
(* and the onStateChange observer.  SpecErrors is the construction of a    *)
(* CircuitOpenError from a cause, SpecAdapters the withCircuitBreaker and  *)
(* WithCircuitBreaker adapters with the breakers they construct,           *)
(* SpecRecovery the breaker called while the service's health changes,     *)
(* SpecObserverThrows the breaker with an observer that throws, and        *)
(* SpecAnyRejection the breaker with operations that also reject bare.     *)
(***************************************************************************)
EXTENDS Integers, Sequences, FiniteSets, TLC

\* ---------------------------------------------------------------- bounds
MaxThreshold == 2      \* thresholds are drawn from -1..MaxThreshold
MaxDuration == 2       \* durationOfBreakInMs is drawn from -1..MaxDuration
MaxTime == 3           \* the clock runs from 0 to MaxTime
MaxCalls == 3          \* number of execute calls made on the breaker
MaxTargets == 2        \* number of functions and methods the adapters wrap
MaxInvocations == 2    \* number of calls made on the wrapped targets

\* ------------------------------------------------ ECircuitBreakerState
CLOSED == "closed"
OPEN == "open"
HALF_OPEN == "half_open"

ECircuitBreakerState == {CLOSED, OPEN, HALF_OPEN}

\* ---------------------------------------------------------------- errors
\* The value `undefined`, as an absent error.
Undefined == [name |-> "undefined", id |-> 0, message |-> ""]

\* The value `null`.
Null == [name |-> "null", id |-> 0, message |-> ""]

\* The Error object the operation of call c rejects with: id is the object's
\* identity; the operations of even calls reject with an empty message.
OpError(c) ==
  [name |-> "Error", id |-> c, message |-> IF c % 2 = 0 THEN "" ELSE "failed"]

\* The error a throwing onStateChange observer throws.
ObserverError == [name |-> "Error", id |-> 0, message |-> "observer"]

\* The value the operation of call c resolves to.
OpValue(c) == c

\* class CircuitBreakerError: name, message, cause.
CircuitBreakerError(name, message, cause) ==
  [name |-> name, message |-> message, cause |-> cause]

CircuitArgumentError(message) ==
  CircuitBreakerError("CircuitArgumentError", message, Undefined)

\* CircuitOpenError taking a cause with an empty message for no cause.
CircuitOpenError_EmptyMessageIsAbsent(cause) ==
  CircuitBreakerError(
    "CircuitOpenError",
    IF cause \notin {Undefined, Null} /\ cause.message # ""
      THEN "Circuit breaker is open caused by: " \o cause.message
      ELSE "Circuit breaker is open caused by: Service is not available",
    cause)

\* class CircuitOpenError: the message is built from the cause when the
\* cause is truthy.
CircuitOpenError(cause) ==
  CircuitBreakerError(
    "CircuitOpenError",
    IF cause \notin {Undefined, Null}
      THEN "Circuit breaker is open caused by: " \o cause.message
      ELSE "Circuit breaker is open caused by: Service is not available",
    cause)

\* ------------------------------------------------------ call outcomes
\* What an operation produced, and what the caller of execute received.
Pending == [kind |-> "pending", value |-> 0, error |-> Undefined]
Resolved(v) == [kind |-> "value", value |-> v, error |-> Undefined]
Rejected(e) == [kind |-> "error", value |-> 0, error |-> e]

\* What an operation does when attemptToExecute invokes it: it returns a
\* promise, or it throws before returning one.
Returns == [kind |-> "returns", error |-> Undefined]
Throws(e) == [kind |-> "throws", error |-> e]

\* The ways the operation of call c can settle.
OpOutcomes(c) == {Resolved(OpValue(c)), Rejected(OpError(c))}

VARIABLES
  cb,        \* the CircuitBreaker object's fields (NoBreaker when construction threw)
  ctorError, \* what `new CircuitBreaker(options)` threw, or Undefined
  observer,  \* options.onStateChange: "none", "records" or "throws"
  now,       \* Date.now()
  calls,     \* the execute calls made so far, in order of the call
  notified,  \* the observer's invocations so far: <<state, error>> pairs
  hist,      \* history: what has settled since the state was entered
  heap,      \* the CircuitBreaker objects the adapters constructed
  wrappers,  \* the wrappers withCircuitBreaker(options) returned
  targets,   \* the wrapped functions and decorated methods
  thrown,    \* an error object under construction: its cause, and the error
  healthy    \* whether the operations invoked now are going to succeed

vars == <<cb, ctorError, observer, now, calls, notified, hist,
          heap, wrappers, targets, thrown, healthy>>

\* The variables the steps of a single breaker leave alone.
others == <<heap, wrappers, targets, thrown, healthy>>

NoThrown == [cause |-> Undefined, error |-> Undefined]

NoOthers ==
  /\ heap = <<>>
  /\ wrappers = <<>>
  /\ targets = <<>>
  /\ thrown = NoThrown
  /\ healthy = TRUE

NoBreaker == [state |-> "none"]

\* --------------------------------------------------------- constructor
\* The options a breaker is constructed with.
Options ==
  [ failureThreshold : -1..MaxThreshold,
    successThreshold : -1..MaxThreshold,
    durationOfBreakInMs : -1..MaxDuration ]

\* constructor accepting a failureThreshold of 0.
NewCircuitBreaker_AllowsZero(options, t) ==
  IF ~(options.successThreshold > 0)
    THEN [threw |-> CircuitArgumentError("successThreshold must be greater than 0"),
          object |-> NoBreaker]
  ELSE IF ~(options.durationOfBreakInMs > 0)
    THEN [threw |-> CircuitArgumentError("durationOfBreakInMs must be greater than 0"),
          object |-> NoBreaker]
  ELSE IF ~(options.failureThreshold >= 0)
    THEN [threw |-> CircuitArgumentError("failureThreshold must be greater than 0"),
          object |-> NoBreaker]
  ELSE [threw |-> Undefined,
        object |->
          [ state |-> CLOSED,
            failureCount |-> 0,
            successCount |-> 0,
            lastFailureTime |-> t,
            lastStateChangeTime |-> t,
            successThreshold |-> options.successThreshold,
            durationOfBreakInMs |-> options.durationOfBreakInMs,
            failureThreshold |-> options.failureThreshold,
            lastError |-> Undefined,
            totalCalls |-> 0,
            successfulCalls |-> 0,
            failedCalls |-> 0,
            rejectedCalls |-> 0 ]]

\* constructor(options): the object built, or the error the asserts throw.
NewCircuitBreaker(options, t) ==
  IF ~(options.successThreshold > 0)
    THEN [threw |-> CircuitArgumentError("successThreshold must be greater than 0"),
          object |-> NoBreaker]
  ELSE IF ~(options.durationOfBreakInMs > 0)
    THEN [threw |-> CircuitArgumentError("durationOfBreakInMs must be greater than 0"),
          object |-> NoBreaker]
  ELSE IF ~(options.failureThreshold > 0)
    THEN [threw |-> CircuitArgumentError("failureThreshold must be greater than 0"),
          object |-> NoBreaker]
  ELSE [threw |-> Undefined,
        object |->
          [ state |-> CLOSED,
            failureCount |-> 0,
            successCount |-> 0,
            lastFailureTime |-> t,
            lastStateChangeTime |-> t,
            successThreshold |-> options.successThreshold,
            durationOfBreakInMs |-> options.durationOfBreakInMs,
            failureThreshold |-> options.failureThreshold,
            lastError |-> Undefined,
            totalCalls |-> 0,
            successfulCalls |-> 0,
            failedCalls |-> 0,
            rejectedCalls |-> 0 ]]

\* ------------------------------------------------------------- methods
\* The methods run on a machine m: the breaker's fields m.b, the observer's
\* log m.notified, the exception in flight m.raised (Undefined when none) and
\* the number of times the step has invoked the operation, m.invoked;
\* m.transitions lists the state changes the step has made, m.invokedIn is
\* the state in which the operation was invoked, and m.returned is the
\* promise attemptToExecute has returned, as settled so far.
Machine ==
  [b |-> cb, notified |-> notified, raised |-> Undefined, invoked |-> 0,
   transitions |-> <<>>, invokedIn |-> "none", returned |-> Pending]

\* setState calling the observer before the assignment, with the state that
\* is being left.
setState_NotifiesOldState(m, newState, error) ==
  IF m.b.state # newState
    THEN [m EXCEPT
            !.b.state = newState,
            !.b.lastStateChangeTime = now,
            !.notified =
              IF observer = "none" THEN @
              ELSE Append(@, [state |-> m.b.state, error |-> error]),
            !.raised = IF observer = "throws" THEN ObserverError ELSE @,
            !.transitions = Append(@, [state |-> newState, error |-> error])]
    ELSE m

\* setState(newState, error)
setState(m, newState, error) ==
  IF m.b.state # newState
    THEN [m EXCEPT
            !.b.state = newState,
            !.b.lastStateChangeTime = now,
            !.notified =
              IF observer = "none" THEN @
              ELSE Append(@, [state |-> newState, error |-> error]),
            !.raised = IF observer = "throws" THEN ObserverError ELSE @,
            !.transitions = Append(@, [state |-> newState, error |-> error])]
    ELSE m

\* reset that also clears the metrics counters.
reset_ClearsMetrics(m) ==
  [m EXCEPT !.b.failureCount = 0, !.b.successCount = 0, !.b.lastError = Undefined,
            !.b.totalCalls = 0, !.b.successfulCalls = 0,
            !.b.failedCalls = 0, !.b.rejectedCalls = 0]

\* reset that leaves lastError in place.
reset_KeepsLastError(m) ==
  [m EXCEPT !.b.failureCount = 0, !.b.successCount = 0]

\* reset()
reset(m) ==
  [m EXCEPT !.b.failureCount = 0, !.b.successCount = 0, !.b.lastError = Undefined]

\* onSuccess closing only when successCount exceeds the threshold.
onSuccess_OffByOne(m) ==
  LET m1 == [m EXCEPT !.b.successfulCalls = @ + 1] IN
  IF m1.b.state = CLOSED THEN m1
  ELSE IF m1.b.state = HALF_OPEN
    THEN LET m2 == [m1 EXCEPT !.b.successCount = @ + 1] IN
         IF m2.b.successCount > m2.b.successThreshold
           THEN LET m3 == setState(m2, CLOSED, Undefined) IN
                IF m3.raised # Undefined THEN m3 ELSE reset(m3)
           ELSE m2
  ELSE m1

\* onSuccess counting a success in every state but CLOSED, OPEN included.
onSuccess_CountsWhenOpen(m) ==
  LET m1 == [m EXCEPT !.b.successfulCalls = @ + 1] IN
  IF m1.b.state = CLOSED THEN m1
  ELSE LET m2 == [m1 EXCEPT !.b.successCount = @ + 1] IN
       IF m2.b.successCount >= m2.b.successThreshold
         THEN LET m3 == setState(m2, CLOSED, Undefined) IN
              IF m3.raised # Undefined THEN m3 ELSE reset(m3)
         ELSE m2

\* onSuccess counting a success only when the breaker is not CLOSED.
onSuccess_UncountedWhenClosed(m) ==
  IF m.b.state = CLOSED THEN m
  ELSE LET m1 == [m EXCEPT !.b.successfulCalls = @ + 1] IN
       IF m1.b.state = HALF_OPEN
         THEN LET m2 == [m1 EXCEPT !.b.successCount = @ + 1] IN
              IF m2.b.successCount >= m2.b.successThreshold
                THEN LET m3 == setState(m2, CLOSED, Undefined) IN
                     IF m3.raised # Undefined THEN m3 ELSE reset(m3)
                ELSE m2
       ELSE m1

\* onSuccess restarting the failure count on a success in CLOSED.
onSuccess_RestartsFailureCount(m) ==
  LET m1 == [m EXCEPT !.b.successfulCalls = @ + 1] IN
  IF m1.b.state = CLOSED THEN [m1 EXCEPT !.b.failureCount = 0]
  ELSE IF m1.b.state = HALF_OPEN
    THEN LET m2 == [m1 EXCEPT !.b.successCount = @ + 1] IN
         IF m2.b.successCount >= m2.b.successThreshold
           THEN LET m3 == setState(m2, CLOSED, Undefined) IN
                IF m3.raised # Undefined THEN m3 ELSE reset(m3)
           ELSE m2
  ELSE m1

\* onSuccess()
onSuccess(m) ==
  LET m1 == [m EXCEPT !.b.successfulCalls = @ + 1] IN
  IF m1.b.state = CLOSED THEN m1
  ELSE IF m1.b.state = HALF_OPEN
    THEN LET m2 == [m1 EXCEPT !.b.successCount = @ + 1] IN
         IF m2.b.successCount >= m2.b.successThreshold
           THEN LET m3 == setState(m2, CLOSED, Undefined) IN
                IF m3.raised # Undefined THEN m3 ELSE reset(m3)
           ELSE m2
  ELSE m1

\* onFailure opening only when failureCount exceeds the threshold.
onFailure_OffByOne(m, error) ==
  LET m1 == [m EXCEPT !.b.failedCalls = @ + 1,
                      !.b.lastError = error,
                      !.b.lastFailureTime = now] IN
  IF m1.b.state = CLOSED
    THEN LET m2 == [m1 EXCEPT !.b.failureCount = @ + 1] IN
         IF m2.b.failureCount > m2.b.failureThreshold
           THEN LET m3 == setState(m2, OPEN, error) IN
                IF m3.raised # Undefined THEN m3
                ELSE [m3 EXCEPT !.b.failureCount = 0]
           ELSE m2
  ELSE IF m1.b.state = HALF_OPEN
    THEN LET m3 == setState(m1, OPEN, error) IN
         IF m3.raised # Undefined THEN m3
         ELSE [m3 EXCEPT !.b.failureCount = 0, !.b.successCount = 0]
  ELSE m1

\* onFailure counting a failed probe against failureThreshold, as it does a
\* failure in CLOSED.
onFailure_TolerantProbe(m, error) ==
  LET m1 == [m EXCEPT !.b.failedCalls = @ + 1,
                      !.b.lastError = error,
                      !.b.lastFailureTime = now] IN
  IF m1.b.state \in {CLOSED, HALF_OPEN}
    THEN LET m2 == [m1 EXCEPT !.b.failureCount = @ + 1] IN
         IF m2.b.failureCount >= m2.b.failureThreshold
           THEN LET m3 == setState(m2, OPEN, error) IN
                IF m3.raised # Undefined THEN m3
                ELSE [m3 EXCEPT !.b.failureCount = 0, !.b.successCount = 0]
           ELSE m2
  ELSE m1

\* onFailure keeping the error that opened the breaker: lastError is not
\* replaced by a failure that settles while the state is OPEN.
onFailure_KeepOpeningError(m, error) ==
  LET m1 == [m EXCEPT !.b.failedCalls = @ + 1,
                      !.b.lastError = IF m.b.state = OPEN THEN @ ELSE error,
                      !.b.lastFailureTime = now] IN
  IF m1.b.state = CLOSED
    THEN LET m2 == [m1 EXCEPT !.b.failureCount = @ + 1] IN
         IF m2.b.failureCount >= m2.b.failureThreshold
           THEN LET m3 == setState(m2, OPEN, error) IN
                IF m3.raised # Undefined THEN m3
                ELSE [m3 EXCEPT !.b.failureCount = 0]
           ELSE m2
  ELSE IF m1.b.state = HALF_OPEN
    THEN LET m3 == setState(m1, OPEN, error) IN
         IF m3.raised # Undefined THEN m3
         ELSE [m3 EXCEPT !.b.failureCount = 0, !.b.successCount = 0]
  ELSE m1

\* onFailure reopening after a failed probe without handing the error to
\* setState.
onFailure_ReopensWithoutError(m, error) ==
  LET m1 == [m EXCEPT !.b.failedCalls = @ + 1,
                      !.b.lastError = error,
                      !.b.lastFailureTime = now] IN
  IF m1.b.state = CLOSED
    THEN LET m2 == [m1 EXCEPT !.b.failureCount = @ + 1] IN
         IF m2.b.failureCount >= m2.b.failureThreshold
           THEN LET m3 == setState(m2, OPEN, error) IN
                IF m3.raised # Undefined THEN m3
                ELSE [m3 EXCEPT !.b.failureCount = 0]
           ELSE m2
  ELSE IF m1.b.state = HALF_OPEN
    THEN LET m3 == setState(m1, OPEN, Undefined) IN
         IF m3.raised # Undefined THEN m3
         ELSE [m3 EXCEPT !.b.failureCount = 0, !.b.successCount = 0]
  ELSE m1

\* onFailure recording lastFailureTime only for failures in CLOSED: a failed
\* probe does not restart the break.
onFailure_ProbeKeepsFailureTime(m, error) ==
  LET m1 == [m EXCEPT !.b.failedCalls = @ + 1,
                      !.b.lastError = error,
                      !.b.lastFailureTime = IF m.b.state = CLOSED THEN now ELSE @] IN
  IF m1.b.state = CLOSED
    THEN LET m2 == [m1 EXCEPT !.b.failureCount = @ + 1] IN
         IF m2.b.failureCount >= m2.b.failureThreshold
           THEN LET m3 == setState(m2, OPEN, error) IN
                IF m3.raised # Undefined THEN m3
                ELSE [m3 EXCEPT !.b.failureCount = 0]
           ELSE m2
  ELSE IF m1.b.state = HALF_OPEN
    THEN LET m3 == setState(m1, OPEN, error) IN
         IF m3.raised # Undefined THEN m3
         ELSE [m3 EXCEPT !.b.failureCount = 0, !.b.successCount = 0]
  ELSE m1

\* onFailure comparing failureCount with successThreshold.
onFailure_WrongThreshold(m, error) ==
  LET m1 == [m EXCEPT !.b.failedCalls = @ + 1,
                      !.b.lastError = error,
                      !.b.lastFailureTime = now] IN
  IF m1.b.state = CLOSED
    THEN LET m2 == [m1 EXCEPT !.b.failureCount = @ + 1] IN
         IF m2.b.failureCount >= m2.b.successThreshold
           THEN LET m3 == setState(m2, OPEN, error) IN
                IF m3.raised # Undefined THEN m3
                ELSE [m3 EXCEPT !.b.failureCount = 0]
           ELSE m2
  ELSE IF m1.b.state = HALF_OPEN
    THEN LET m3 == setState(m1, OPEN, error) IN
         IF m3.raised # Undefined THEN m3
         ELSE [m3 EXCEPT !.b.failureCount = 0, !.b.successCount = 0]
  ELSE m1

\* onFailure leaving successCount as it is when a probe fails.
onFailure_ProbeKeepsSuccessCount(m, error) ==
  LET m1 == [m EXCEPT !.b.failedCalls = @ + 1,
                      !.b.lastError = error,
                      !.b.lastFailureTime = now] IN
  IF m1.b.state = CLOSED
    THEN LET m2 == [m1 EXCEPT !.b.failureCount = @ + 1] IN
         IF m2.b.failureCount >= m2.b.failureThreshold
           THEN LET m3 == setState(m2, OPEN, error) IN
                IF m3.raised # Undefined THEN m3
                ELSE [m3 EXCEPT !.b.failureCount = 0]
           ELSE m2
  ELSE IF m1.b.state = HALF_OPEN
    THEN LET m3 == setState(m1, OPEN, error) IN
         IF m3.raised # Undefined THEN m3
         ELSE [m3 EXCEPT !.b.failureCount = 0]
  ELSE m1

\* onFailure that does not count an error with an empty message towards the
\* failure threshold.
onFailure_SkipsBlankErrors(m, error) ==
  LET m1 == [m EXCEPT !.b.failedCalls = @ + 1,
                      !.b.lastError = error,
                      !.b.lastFailureTime = now] IN
  IF m1.b.state = CLOSED
    THEN LET m2 == [m1 EXCEPT !.b.failureCount =
                                 IF error.message = "" THEN @ ELSE @ + 1] IN
         IF m2.b.failureCount >= m2.b.failureThreshold
           THEN LET m3 == setState(m2, OPEN, error) IN
                IF m3.raised # Undefined THEN m3
                ELSE [m3 EXCEPT !.b.failureCount = 0]
           ELSE m2
  ELSE IF m1.b.state = HALF_OPEN
    THEN LET m3 == setState(m1, OPEN, error) IN
         IF m3.raised # Undefined THEN m3
         ELSE [m3 EXCEPT !.b.failureCount = 0, !.b.successCount = 0]
  ELSE m1

\* onFailure that does not restart the break when a failure settles while
\* the breaker is OPEN.
onFailure_LateKeepsFailureTime(m, error) ==
  LET m1 == [m EXCEPT !.b.failedCalls = @ + 1,
                      !.b.lastError = error,
                      !.b.lastFailureTime =
                        IF m.b.state = OPEN THEN @ ELSE now] IN
  IF m1.b.state = CLOSED
    THEN LET m2 == [m1 EXCEPT !.b.failureCount = @ + 1] IN
         IF m2.b.failureCount >= m2.b.failureThreshold
           THEN LET m3 == setState(m2, OPEN, error) IN
                IF m3.raised # Undefined THEN m3
                ELSE [m3 EXCEPT !.b.failureCount = 0]
           ELSE m2
  ELSE IF m1.b.state = HALF_OPEN
    THEN LET m3 == setState(m1, OPEN, error) IN
         IF m3.raised # Undefined THEN m3
         ELSE [m3 EXCEPT !.b.failureCount = 0, !.b.successCount = 0]
  ELSE m1

\* onFailure that goes on counting failures while the breaker is OPEN.
onFailure_CountsWhenOpen(m, error) ==
  LET m1 == [m EXCEPT !.b.failedCalls = @ + 1,
                      !.b.lastError = error,
                      !.b.lastFailureTime = now] IN
  IF m1.b.state = CLOSED
    THEN LET m2 == [m1 EXCEPT !.b.failureCount = @ + 1] IN
         IF m2.b.failureCount >= m2.b.failureThreshold
           THEN LET m3 == setState(m2, OPEN, error) IN
                IF m3.raised # Undefined THEN m3
                ELSE [m3 EXCEPT !.b.failureCount = 0]
           ELSE m2
  ELSE IF m1.b.state = HALF_OPEN
    THEN LET m3 == setState(m1, OPEN, error) IN
         IF m3.raised # Undefined THEN m3
         ELSE [m3 EXCEPT !.b.failureCount = 0, !.b.successCount = 0]
  ELSE [m1 EXCEPT !.b.failureCount = @ + 1]

\* onFailure(error)
onFailure(m, error) ==
  LET m1 == [m EXCEPT !.b.failedCalls = @ + 1,
                      !.b.lastError = error,
                      !.b.lastFailureTime = now] IN
  IF m1.b.state = CLOSED
    THEN LET m2 == [m1 EXCEPT !.b.failureCount = @ + 1] IN
         IF m2.b.failureCount >= m2.b.failureThreshold
           THEN LET m3 == setState(m2, OPEN, error) IN
                IF m3.raised # Undefined THEN m3
                ELSE [m3 EXCEPT !.b.failureCount = 0]
           ELSE m2
  ELSE IF m1.b.state = HALF_OPEN
    THEN LET m3 == setState(m1, OPEN, error) IN
         IF m3.raised # Undefined THEN m3
         ELSE [m3 EXCEPT !.b.failureCount = 0, !.b.successCount = 0]
  ELSE m1

\* attemptToExecute invoking the operation a second time when it fails.
attemptToExecute_Retry(m, produced) ==
  IF produced.kind = "value"
    THEN LET m1 == onSuccess(m) IN
         IF m1.raised = Undefined
           THEN [m |-> m1, received |-> Resolved(produced.value)]
           ELSE LET error == m1.raised
                    m2 == onFailure([m1 EXCEPT !.raised = Undefined], error) IN
                IF m2.raised # Undefined
                  THEN [m |-> m2, received |-> Rejected(m2.raised)]
                  ELSE [m |-> m2, received |-> Rejected(error)]
    ELSE LET m0 == onFailure(m, produced.error)
             m1 == [m0 EXCEPT !.invoked = @ + 1] IN
         IF m1.raised # Undefined
           THEN [m |-> m1, received |-> Rejected(m1.raised)]
           ELSE [m |-> m1, received |-> Rejected(produced.error)]

\* attemptToExecute throwing a CircuitBreakerError that wraps the operation's
\* error.
attemptToExecute_Wrap(m, produced) ==
  IF produced.kind = "value"
    THEN LET m1 == onSuccess(m) IN
         IF m1.raised = Undefined
           THEN [m |-> m1, received |-> Resolved(produced.value)]
           ELSE LET error == m1.raised
                    m2 == onFailure([m1 EXCEPT !.raised = Undefined], error) IN
                IF m2.raised # Undefined
                  THEN [m |-> m2, received |-> Rejected(m2.raised)]
                  ELSE [m |-> m2, received |-> Rejected(error)]
    ELSE LET m1 == onFailure(m, produced.error) IN
         IF m1.raised # Undefined
           THEN [m |-> m1, received |-> Rejected(m1.raised)]
           ELSE [m |-> m1,
                 received |-> Rejected(CircuitBreakerError(
                   "CircuitBreakerError", produced.error.message, produced.error))]

\* attemptToExecute(operation), from the await on: `produced` is how the
\* operation's promise settled; the result is the machine after the handlers
\* and what the promise returned by execute settles to.
attemptToExecute(m, produced) ==
  IF produced.kind = "value"
    THEN LET m1 == onSuccess(m) IN
         IF m1.raised = Undefined
           THEN [m |-> m1, received |-> Resolved(produced.value)]
           ELSE \* onSuccess threw inside the try block: the catch block runs
                LET error == m1.raised
                    m2 == onFailure([m1 EXCEPT !.raised = Undefined], error) IN
                IF m2.raised # Undefined
                  THEN [m |-> m2, received |-> Rejected(m2.raised)]
                  ELSE [m |-> m2, received |-> Rejected(error)]
    ELSE LET m1 == onFailure(m, produced.error) IN
         IF m1.raised # Undefined
           THEN [m |-> m1, received |-> Rejected(m1.raised)]
           ELSE [m |-> m1, received |-> Rejected(produced.error)]

\* attemptToExecute(operation), up to the point where it returns its promise:
\* the operation is invoked in the try block. When it returns a promise the
\* function suspends at the await and the promise it returns is pending.
\* When it throws, the catch block runs before the function returns, and the
\* promise it returns is already rejected; an exception of the catch block
\* rejects that promise too.
invokeOperation(m, fn) ==
  LET m1 == [m EXCEPT !.invoked = @ + 1, !.invokedIn = m.b.state] IN
  IF fn.kind = "throws"
    THEN LET r == attemptToExecute(m1, Rejected(fn.error)) IN
         [r.m EXCEPT !.raised = Undefined, !.returned = r.received]
    ELSE m1

\* probeCheck without the wait: the probe is allowed as soon as the breaker
\* is OPEN.
probeCheck_NoWait(m) ==
  IF m.b.state = OPEN
    THEN LET m1 == setState(m, HALF_OPEN, Undefined) IN
         IF m1.raised # Undefined THEN m1
         ELSE [m1 EXCEPT !.b.successCount = 0]
    ELSE m

\* probeCheck with the comparison turned round: the probe is allowed while
\* the break lasts.
probeCheck_Inverted(m) ==
  IF /\ m.b.state = OPEN
     /\ m.b.lastFailureTime + m.b.durationOfBreakInMs > now
    THEN LET m1 == setState(m, HALF_OPEN, Undefined) IN
         IF m1.raised # Undefined THEN m1
         ELSE [m1 EXCEPT !.b.successCount = 0]
    ELSE m

\* The probe check entering HALF_OPEN without going through setState.
probeCheck_SilentProbe(m) ==
  IF /\ m.b.state = OPEN
     /\ m.b.lastFailureTime + m.b.durationOfBreakInMs <= now
    THEN [m EXCEPT !.b.state = HALF_OPEN,
                   !.b.lastStateChangeTime = now,
                   !.b.successCount = 0,
                   !.transitions = Append(@, [state |-> HALF_OPEN, error |-> Undefined])]
    ELSE m

\* execute(fn), first statement: the recovery probe eligibility check.
probeCheck(m) ==
  IF /\ m.b.state = OPEN
     /\ m.b.lastFailureTime + m.b.durationOfBreakInMs <= now
    THEN LET m1 == setState(m, HALF_OPEN, Undefined) IN
         IF m1.raised # Undefined THEN m1
         ELSE [m1 EXCEPT !.b.successCount = 0]
    ELSE m

\* execute rejecting on the state it finds, before the probe check.
execute_RejectFirst(m, fn) ==
  LET m1 == probeCheck(m) IN
  IF m1.raised # Undefined THEN m1
  ELSE IF m.b.state = OPEN
    THEN [m1 EXCEPT !.b.rejectedCalls = @ + 1,
                    !.b.totalCalls = @ + 1,
                    !.raised = CircuitOpenError(m1.b.lastError)]
  ELSE invokeOperation([m1 EXCEPT !.b.totalCalls = @ + 1], fn)

\* execute rethrowing lastError itself when it rejects a call.
execute_ThrowLastError(m, fn) ==
  LET m1 == probeCheck(m) IN
  IF m1.raised # Undefined THEN m1
  ELSE IF m1.b.state = OPEN
    THEN [m1 EXCEPT !.b.rejectedCalls = @ + 1,
                    !.b.totalCalls = @ + 1,
                    !.raised = m1.b.lastError]
  ELSE invokeOperation([m1 EXCEPT !.b.totalCalls = @ + 1], fn)

\* execute rejecting a call without counting it in totalCalls.
execute_RejectUncounted(m, fn) ==
  LET m1 == probeCheck(m) IN
  IF m1.raised # Undefined THEN m1
  ELSE IF m1.b.state = OPEN
    THEN [m1 EXCEPT !.b.rejectedCalls = @ + 1,
                    !.raised = CircuitOpenError(m1.b.lastError)]
  ELSE invokeOperation([m1 EXCEPT !.b.totalCalls = @ + 1], fn)

\* execute restarting the break when it rejects a call.
execute_RejectRestartsBreak(m, fn) ==
  LET m1 == probeCheck(m) IN
  IF m1.raised # Undefined THEN m1
  ELSE IF m1.b.state = OPEN
    THEN [m1 EXCEPT !.b.rejectedCalls = @ + 1,
                    !.b.totalCalls = @ + 1,
                    !.b.lastFailureTime = now,
                    !.raised = CircuitOpenError(m1.b.lastError)]
  ELSE invokeOperation([m1 EXCEPT !.b.totalCalls = @ + 1], fn)

\* execute(fn), up to the point where it returns the promise or throws.
execute(m, fn) ==
  LET m1 == probeCheck(m) IN
  IF m1.raised # Undefined THEN m1
  ELSE IF m1.b.state = OPEN
    THEN [m1 EXCEPT !.b.rejectedCalls = @ + 1,
                    !.b.totalCalls = @ + 1,
                    !.raised = CircuitOpenError(m1.b.lastError)]
  ELSE invokeOperation([m1 EXCEPT !.b.totalCalls = @ + 1], fn)

\* ------------------------------------------------------------- history
\* Since the breaker was constructed or last changed state: how many
\* operations failed, succeeded and were invoked, how many failed in a row
\* (streak), when that was (since) and the state before (prev).  Since
\* construction: the error argument of the last setState(OPEN, error) that
\* changed the state, the error of the operation that failed last and when
\* it failed, and whether every call so far was made before any operation
\* settled (concurrent).  And the options the constructor was called with.
HistInit(options) ==
  [fails |-> 0, succs |-> 0, invoked |-> 0, streak |-> 0,
   since |-> 0, prev |-> "none",
   openCause |-> Undefined, lastFailed |-> Undefined, failedAt |-> 0,
   concurrent |-> TRUE, options |-> options]

RECURSIVE LastOpenCause(_, _)
LastOpenCause(transitions, cause) ==
  IF transitions = <<>> THEN cause
  ELSE LastOpenCause(Tail(transitions),
                     IF Head(transitions).state = OPEN
                       THEN Head(transitions).error ELSE cause)

\* All the operations of calls cs are pending.
AllPending(cs) == \A c \in DOMAIN cs : cs[c].received = Pending

\* The history after a step that took the machine to m, in which an
\* operation settled as `produced` (Pending when none did); `called` tells
\* that the step was an execute call.
HistStepFrom(prev, m, produced, h, called) ==
  LET failed == IF produced.kind = "error" THEN 1 ELSE 0
      h1 == IF m.transitions # <<>>
              THEN [h EXCEPT !.fails = 0, !.succs = 0, !.invoked = 0,
                             !.streak = 0, !.since = now, !.prev = prev]
              ELSE [h EXCEPT
                      !.fails = @ + failed,
                      !.succs = @ + (IF produced.kind = "value" THEN 1 ELSE 0),
                      !.streak = IF produced.kind = "value" THEN 0 ELSE @ + failed] IN
  [h1 EXCEPT !.invoked = @ + m.invoked,
             !.openCause = LastOpenCause(m.transitions, @),
             !.lastFailed = IF failed = 1 THEN produced.error ELSE @,
             !.failedAt = IF failed = 1 THEN now ELSE @,
             !.concurrent = @ /\ (called => AllPending(calls))]

HistStep(m, produced, h, called) == HistStepFrom(cb.state, m, produced, h, called)

\* The part of machine m that the catch block of attemptToExecute added to
\* the admission m0 of the same call.
CatchOf(m0, m) ==
  [transitions |-> SubSeq(m.transitions, Len(m0.transitions) + 1,
                          Len(m.transitions)),
   invoked |-> m.invoked - m0.invoked]

\* The history after an execute call that took the machine to m and whose
\* operation behaved as fn; m0 is the machine at the invocation.
HistCall(m0, m, fn, h) ==
  LET h1 == HistStep(m0, Pending, h, TRUE) IN
  IF m.returned = Pending THEN h1
  ELSE HistStepFrom(m0.b.state, CatchOf(m0, m), Rejected(fn.error), h1, FALSE)

\* ------------------------------------------------------------- actions
InitWith(observers) ==
  /\ now = 0
  /\ observer \in observers
  /\ \E options \in Options :
       LET r == NewCircuitBreaker(options, 0) IN
       /\ cb = r.object
       /\ ctorError = r.threw
       /\ hist = HistInit(options)
  /\ calls = <<>>
  /\ notified = <<>>
  /\ NoOthers

\* The breaker is constructed without an observer, or with one that records
\* its invocations and returns.
Init == InitWith({"none", "records"})

\* Time passing with a background timer that performs the probe check.
Tick_Recovers ==
  /\ now < MaxTime
  /\ now' = now + 1
  /\ cb' = IF /\ cb # NoBreaker
              /\ cb.state = OPEN
              /\ cb.lastFailureTime + cb.durationOfBreakInMs <= now + 1
             THEN [cb EXCEPT !.state = HALF_OPEN, !.lastStateChangeTime = now + 1]
             ELSE cb
  /\ UNCHANGED <<ctorError, observer, calls, notified, hist, others>>

\* Time passes.
Tick ==
  /\ now < MaxTime
  /\ now' = now + 1
  /\ UNCHANGED <<cb, ctorError, observer, calls, notified, hist, others>>

\* The operations a caller may pass in call c.
Operations(c) == {Returns, Throws(OpError(c))}

\* A caller calls execute(fn) with the new operation fn. A call whose
\* operation throws is judged before execute returns.
ExecuteWith(fn) ==
  /\ cb # NoBreaker
  /\ Len(calls) < MaxCalls
  /\ LET m == execute(Machine, fn)
         m0 == execute(Machine, Returns)
         judged == m.returned # Pending IN
     /\ cb' = m.b
     /\ notified' = m.notified
     /\ calls' = Append(calls,
          [ invoked |-> m.invoked,
            probe |-> m0.transitions # <<>>,
            admittedIn |-> m0.b.state,
            settledIn |-> IF judged THEN m.invokedIn ELSE "none",
            produced |-> IF judged THEN Rejected(fn.error) ELSE Pending,
            received |-> IF m.raised # Undefined THEN Rejected(m.raised)
                         ELSE m.returned ])
     /\ hist' = HistCall(m0, m, fn, hist)
  /\ UNCHANGED <<ctorError, observer, now, others>>

Execute == \E fn \in Operations(Len(calls) + 1) : ExecuteWith(fn)

\* Settle judging the outcome against the state the call was admitted in.
Settle_JudgedAsAdmitted(c) ==
  /\ calls[c].received = Pending
  /\ \E produced \in OpOutcomes(c) :
       LET r == attemptToExecute(
                  [Machine EXCEPT !.b.state = calls[c].admittedIn], produced) IN
       /\ cb' = r.m.b
       /\ notified' = r.m.notified
       /\ calls' = [calls EXCEPT
            ![c].invoked = @ + r.m.invoked,
            ![c].settledIn = cb.state,
            ![c].produced = produced,
            ![c].received = r.received]
       /\ hist' = HistStep(r.m, produced, hist, FALSE)
  /\ UNCHANGED <<ctorError, observer, now, others>>

\* The operation of pending call c settles, and the continuation of
\* attemptToExecute runs.
Settle(c) ==
  /\ calls[c].received = Pending
  /\ \E produced \in OpOutcomes(c) :
       LET r == attemptToExecute(Machine, produced) IN
       /\ cb' = r.m.b
       /\ notified' = r.m.notified
       /\ calls' = [calls EXCEPT
            ![c].invoked = @ + r.m.invoked,
            ![c].settledIn = cb.state,
            ![c].produced = produced,
            ![c].received = r.received]
       /\ hist' = HistStep(r.m, produced, hist, FALSE)
  /\ UNCHANGED <<ctorError, observer, now, others>>

Next ==
  \/ Tick
  \/ Execute
  \/ \E c \in DOMAIN calls : Settle(c)

Spec == Init /\ [][Next]_vars

\* The same breaker with an onStateChange observer that throws on every
\* invocation.
InitObserverThrows == InitWith({"throws"})

SpecObserverThrows == InitObserverThrows /\ [][Next]_vars

\* ------------------------------------------- operations that reject bare
\* The same breaker, without an observer, called with operations that can
\* also reject with no reason at all (Promise.reject(), or a timer calling
\* reject): the catch block of attemptToExecute then passes undefined to
\* onFailure.  The operations of the odd calls fail with their Error, those
\* of the even calls fail bare.
AnyOutcomes(c) ==
  {Resolved(OpValue(c)), Rejected(IF c % 2 = 1 THEN OpError(c) ELSE Undefined)}

AnyOperations(c) ==
  {Returns, Throws(IF c % 2 = 1 THEN OpError(c) ELSE Undefined)}

InitAnyRejection == InitWith({"none"})

ExecuteAny == \E fn \in AnyOperations(Len(calls) + 1) : ExecuteWith(fn)

SettleAny(c) ==
  /\ calls[c].received = Pending
  /\ \E produced \in AnyOutcomes(c) :
       LET r == attemptToExecute(Machine, produced) IN
       /\ cb' = r.m.b
       /\ notified' = r.m.notified
       /\ calls' = [calls EXCEPT
            ![c].invoked = @ + r.m.invoked,
            ![c].settledIn = cb.state,
            ![c].produced = produced,
            ![c].received = r.received]
       /\ hist' = HistStep(r.m, produced, hist, FALSE)
  /\ UNCHANGED <<ctorError, observer, now, others>>

NextAnyRejection ==
  \/ Tick
  \/ ExecuteAny
  \/ \E c \in DOMAIN calls : SettleAny(c)

SpecAnyRejection == InitAnyRejection /\ [][NextAnyRejection]_vars

\* ------------------------------------------------ the error constructors
\* The messages of the errors given as causes.
ErrorMessages ==
  {"", "failed", "Database connection failed", "Service is not available"}

\* The causes a CircuitOpenError is built from: undefined, null, Error
\* objects, and the breaker-open errors of an inner breaker.
PlainCauses ==
  {Undefined, Null} \cup
  [name : {"Error", "TypeError"}, id : 1..MaxCalls, message : ErrorMessages]

Causes == PlainCauses \cup {CircuitOpenError(c) : c \in PlainCauses}

InitErrors ==
  /\ cb = NoBreaker
  /\ ctorError = Undefined
  /\ observer = "none"
  /\ now = 0
  /\ calls = <<>>
  /\ notified = <<>>
  /\ hist = HistInit(Undefined)
  /\ heap = <<>>
  /\ wrappers = <<>>
  /\ targets = <<>>
  /\ \E cause \in Causes : thrown = [cause |-> cause, error |-> Undefined]
  /\ healthy = TRUE

\* new CircuitOpenError(cause)
NewCircuitOpenError ==
  /\ thrown.error = Undefined
  /\ thrown' = [thrown EXCEPT !.error = CircuitOpenError(thrown.cause)]
  /\ UNCHANGED <<cb, ctorError, observer, now, calls, notified, hist,
                 heap, wrappers, targets, healthy>>

NextErrors == NewCircuitOpenError

SpecErrors == InitErrors /\ [][NextErrors]_vars

\* ----------------------------------------------------------- the adapters
\* The options the adapters are called with: the minimal thresholds.
AdapterOptions ==
  {o \in Options : /\ o.failureThreshold = 1
                   /\ o.successThreshold = 1
                   /\ o.durationOfBreakInMs = 1}

\* The argument list of call c: one argument in odd calls, two in even ones.
Args(c) == IF c % 2 = 1 THEN <<"a">> ELSE <<"a", "b">>
NoArgs == <<"none">>

\* The wrapping is done when the program starts: before the first call.
Starting == calls = <<>> /\ now = 0

\* What the original function of target t resolves to when applied to args,
\* and the error it rejects with in call c.
OriginalValue(t, args) == [of |-> t, args |-> args]
OriginalOutcomes(c, t, args) ==
  {Resolved(OriginalValue(t, args)), Rejected(OpError(c))}

\* The machine of breaker object b, which has no observer here.
MachineOf(b) ==
  [b |-> b, notified |-> <<>>, raised |-> Undefined, invoked |-> 0,
   transitions |-> <<>>, invokedIn |-> "none", returned |-> Pending]

\* The wrapped function applying the original to no arguments.
wrappedCall_NoArgs(b, args, original) ==
  LET m == execute(MachineOf(b), original) IN
  [b |-> m.b, raised |-> m.raised, returned |-> m.returned,
   invoked |-> m.invoked,
   passed |-> IF m.invoked > 0 THEN <<>> ELSE NoArgs]

\* (...args) => circuitBreaker.execute(() => originalMethod.apply(this, args)),
\* up to the point where execute returns the promise or throws, `original`
\* telling what the original does when applied: the breaker after it, what
\* it threw, the promise it returned, and the arguments the original was
\* applied to.
wrappedCall(b, args, original) ==
  LET m == execute(MachineOf(b), original) IN
  [b |-> m.b, raised |-> m.raised, returned |-> m.returned,
   invoked |-> m.invoked,
   passed |-> IF m.invoked > 0 THEN args ELSE NoArgs]

InitAdapters ==
  /\ cb = NoBreaker
  /\ ctorError = Undefined
  /\ observer = "none"
  /\ now = 0
  /\ calls = <<>>
  /\ notified = <<>>
  /\ hist = HistInit(Undefined)
  /\ heap = <<>>
  /\ wrappers = <<>>
  /\ targets = <<>>
  /\ thrown = NoThrown
  /\ healthy = TRUE

\* withCircuitBreaker(options): constructs a breaker and returns the wrapper
\* that closes over it, or throws what the constructor throws.
WithCircuitBreakerCall ==
  /\ Starting
  /\ Len(wrappers) < MaxTargets
  /\ \A w \in DOMAIN wrappers : \E t \in DOMAIN targets : targets[t].wrapper = w
  /\ \E options \in AdapterOptions :
       LET r == NewCircuitBreaker(options, now) IN
       /\ ctorError' = r.threw
       /\ heap' = IF r.threw = Undefined THEN Append(heap, r.object) ELSE heap
       /\ wrappers' = IF r.threw = Undefined
                        THEN Append(wrappers, [breaker |-> Len(heap) + 1])
                        ELSE wrappers
  /\ UNCHANGED <<cb, observer, now, calls, notified, hist, targets, thrown,
                 healthy>>

\* wrapper(originalMethod): wrapper w wraps one more function.
Wrap(w) ==
  /\ Starting
  /\ Len(targets) < MaxTargets
  /\ targets' = Append(targets,
       [kind |-> "function", breaker |-> wrappers[w].breaker, wrapper |-> w])
  /\ UNCHANGED <<cb, ctorError, observer, now, calls, notified, hist,
                 heap, wrappers, thrown, healthy>>

\* @WithCircuitBreaker(options) on a method: the decorator constructs a
\* breaker and replaces the method, or throws what the constructor throws.
Decorate ==
  /\ Starting
  /\ Len(targets) < MaxTargets
  /\ \E options \in AdapterOptions :
       LET r == NewCircuitBreaker(options, now) IN
       /\ ctorError' = r.threw
       /\ heap' = IF r.threw = Undefined THEN Append(heap, r.object) ELSE heap
       /\ targets' = IF r.threw = Undefined
                       THEN Append(targets,
                              [kind |-> "method", breaker |-> Len(heap) + 1,
                               wrapper |-> 0])
                       ELSE targets
  /\ UNCHANGED <<cb, observer, now, calls, notified, hist, wrappers, thrown,
                 healthy>>

\* The wrapped function or decorated method t is called, once the calls made
\* before have settled (overlapping calls on one breaker are what Spec is
\* about).
Invoke(t) ==
  /\ Len(calls) < MaxInvocations
  /\ \A c \in DOMAIN calls : calls[c].received # Pending
  /\ \E original \in Operations(Len(calls) + 1) :
     LET args == Args(Len(calls) + 1)
         b == targets[t].breaker
         r == wrappedCall(heap[b], args, original) IN
     /\ heap' = [heap EXCEPT ![b] = r.b]
     /\ calls' = Append(calls,
          [ target |-> t,
            args |-> args,
            invoked |-> r.invoked,
            passed |-> r.passed,
            foundIn |-> heap[b].state,
            elapsed |-> heap[b].lastFailureTime + heap[b].durationOfBreakInMs <= now,
            produced |-> IF r.returned # Pending
                           THEN Rejected(original.error) ELSE Pending,
            received |-> IF r.raised # Undefined THEN Rejected(r.raised)
                         ELSE r.returned ])
  /\ UNCHANGED <<cb, ctorError, observer, now, notified, hist, wrappers,
                 targets, thrown, healthy>>

\* The promise the original returned in call c settles, and the continuation
\* of attemptToExecute runs on the target's breaker.
Return(c) ==
  /\ calls[c].received = Pending
  /\ \E produced \in OriginalOutcomes(c, calls[c].target, calls[c].passed) :
       LET b == targets[calls[c].target].breaker
           r == attemptToExecute(MachineOf(heap[b]), produced) IN
       /\ heap' = [heap EXCEPT ![b] = r.m.b]
       /\ calls' = [calls EXCEPT
            ![c].produced = produced,
            ![c].received = r.received]
  /\ UNCHANGED <<cb, ctorError, observer, now, notified, hist, wrappers,
                 targets, thrown, healthy>>

NextAdapters ==
  \/ Tick
  \/ WithCircuitBreakerCall
  \/ \E w \in DOMAIN wrappers : Wrap(w)
  \/ Decorate
  \/ \E t \in DOMAIN targets : Invoke(t)
  \/ \E c \in DOMAIN calls : Return(c)

SpecAdapters == InitAdapters /\ [][NextAdapters]_vars

\* ------------------------------------------------------------- recovery
\* The breaker, without an observer, called with operations whose outcome
\* follows the health of the service at the time they are invoked: an
\* operation invoked while the service is healthy is going to succeed, one
\* invoked while it is not may go either way.  The service is not healthy
\* at first.  Here `calls` holds the pending operations only, each with the
\* number of its call and what it is going to do.  The run is cut where the
\* clock reaches MaxTime or totalCalls reaches MaxCalls.
InitRecovery ==
  /\ now = 0
  /\ observer = "none"
  /\ \E options \in Options :
       LET r == NewCircuitBreaker(options, 0) IN
       /\ cb = r.object
       /\ ctorError = r.threw
       /\ hist = HistInit(options)
  /\ cb # NoBreaker
  /\ calls = <<>>
  /\ notified = <<>>
  /\ heap = <<>> /\ wrappers = <<>> /\ targets = <<>> /\ thrown = NoThrown
  /\ healthy = FALSE

\* A caller calls execute(fn): the call is rejected, or its operation is
\* invoked and is pending.
ExecuteRecovery ==
  /\ cb.totalCalls < MaxCalls
  /\ \E fails \in (IF healthy THEN {FALSE} ELSE BOOLEAN) :
     \E throws \in (IF fails THEN BOOLEAN ELSE {FALSE}) :
       LET id == cb.totalCalls + 1
           m == execute(Machine, IF throws THEN Throws(OpError(id)) ELSE Returns) IN
       /\ cb' = m.b
       /\ calls' = IF m.raised # Undefined \/ m.returned # Pending
                     THEN calls
                     ELSE Append(calls, [id |-> id, fails |-> fails])
  /\ UNCHANGED <<ctorError, observer, now, notified, hist, others>>

\* The c-th pending operation settles, and the continuation of
\* attemptToExecute runs.
SettleRecovery(c) ==
  /\ c \in DOMAIN calls
  /\ LET produced == IF calls[c].fails THEN Rejected(OpError(calls[c].id))
                      ELSE Resolved(OpValue(calls[c].id))
         r == attemptToExecute(Machine, produced) IN
     cb' = r.m.b
  /\ calls' = SubSeq(calls, 1, c - 1) \o SubSeq(calls, c + 1, Len(calls))
  /\ UNCHANGED <<ctorError, observer, now, notified, hist, others>>

\* The operations become healthy, for good.
Heal ==
  /\ ~healthy
  /\ healthy' = TRUE
  /\ UNCHANGED <<cb, ctorError, observer, now, calls, notified, hist,
                 heap, wrappers, targets, thrown>>

NextRecovery ==
  \/ Tick
  \/ ExecuteRecovery
  \/ \E c \in DOMAIN calls : SettleRecovery(c)
  \/ Heal

\* Time keeps advancing, pending operations settle, and while the breaker
\* is not CLOSED execute keeps being called when it lets a call through.
SpecRecovery ==
  /\ InitRecovery
  /\ [][NextRecovery]_vars
  /\ WF_vars(Tick)
  /\ WF_vars(ExecuteRecovery /\ cb.state # CLOSED /\ execute(Machine, Returns).invoked = 1)
  /\ WF_vars(\E c \in DOMAIN calls : SettleRecovery(c))

\* ------------------------------------------------- steps, as seen in a pair
\* of states
\* The step is an execute call: it adds call NewCall.
ExecuteStep == Len(calls') = Len(calls) + 1
NewCall == calls'[Len(calls')]

\* The step is an execute call whose operation threw before returning a
\* promise, and the operation that call passed.
ThrowStep == ExecuteStep /\ NewCall.produced # Pending
NewOperation ==
  IF ThrowStep THEN Throws(NewCall.produced.error) ELSE Returns

\* execute threw a breaker-open error at call record r.
IsRejected(r) ==
  /\ r.received.kind = "error"
  /\ r.received.error.name = "CircuitOpenError"

\* The step judges the operation of call c: its promise settles, or the call
\* is made in this step and its operation throws.
SettleStep(c) ==
  /\ c \in DOMAIN calls'
  /\ c \in DOMAIN calls => calls[c].produced = Pending
  /\ calls'[c].produced # Pending
FailStep(c) == SettleStep(c) /\ calls'[c].produced.kind = "error"
SuccessStep(c) == SettleStep(c) /\ calls'[c].produced.kind = "value"

\* The breaker and the history as the judgment of this step finds them: those
\* of the state the step starts in, or, for an operation that throws in the
\* execute call of this step, those the admission of that call leaves.
JudgedCb == IF ThrowStep THEN execute(Machine, Returns).b ELSE cb
JudgedHist ==
  IF ThrowStep THEN HistStep(execute(Machine, Returns), Pending, hist, TRUE)
  ELSE hist

\* The breaker as the admission of the execute call of this step leaves it,
\* before an operation that throws is judged.
AdmittedCb == IF ThrowStep THEN execute(Machine, Returns).b ELSE cb'

\* The break has elapsed: the recovery probe is allowed.
BreakElapsed == cb.lastFailureTime + cb.durationOfBreakInMs <= now

\* ---------------------------------------------------------------- claims
\* C1: while the state is OPEN and now < lastFailureTime + durationOfBreakInMs,
\* every execute call throws a CircuitOpenError, does not invoke its
\* operation, and leaves the state OPEN.
C1_RejectedDuringBreak ==
  [][(cb.state = OPEN /\ ~BreakElapsed /\ ExecuteStep) =>
       /\ IsRejected(NewCall)
       /\ NewCall.invoked = 0
       /\ cb'.state = OPEN]_vars

\* An execute call has just been rejected during the break.
C1_Witness ==
  /\ cb.state = OPEN
  /\ ~BreakElapsed
  /\ calls # <<>>
  /\ IsRejected(calls[Len(calls)])
  /\ calls[Len(calls)].invoked = 0
  /\ cb.rejectedCalls > 0

\* C2: from a breaker that is CLOSED since construction or recovery, while
\* only failures have settled: the k-th failure leaves the state CLOSED for
\* k < failureThreshold, and the failureThreshold-th takes it to OPEN.
C2_OpensAtThreshold ==
  /\ []((cb.state = CLOSED /\ hist.succs = 0) => hist.fails < cb.failureThreshold)
  /\ [][\A c \in DOMAIN calls' :
         (JudgedCb.state = CLOSED /\ JudgedHist.succs = 0 /\ FailStep(c)) =>
           /\ (JudgedHist.fails + 1 < cb.failureThreshold => cb'.state = CLOSED)
           /\ (JudgedHist.fails + 1 = cb.failureThreshold => cb'.state = OPEN)]_vars

\* With failureThreshold 2, two failed calls and nothing else have opened
\* the breaker.
C2_Witness ==
  /\ cb.state = OPEN
  /\ cb.failureThreshold = 2
  /\ Len(calls) = 2
  /\ \A c \in DOMAIN calls : calls[c].produced.kind = "error"

\* When the state is OPEN and the break has elapsed, an execute call moves
\* the state to HALF_OPEN with successCount 0 and only then invokes its
\* operation; the call is not rejected.  An operation that throws is judged
\* before the call returns; one that returns a promise leaves the call
\* pending.
ProbeAdmitted ==
  (cb.state = OPEN /\ BreakElapsed /\ ExecuteStep) =>
    /\ NewCall.probe
    /\ NewCall.invoked = 1
    /\ NewCall.admittedIn = HALF_OPEN
    /\ ~IsRejected(NewCall)
    /\ AdmittedCb.state = HALF_OPEN
    /\ AdmittedCb.successCount = 0
    /\ IF ThrowStep
         THEN NewCall.settledIn = HALF_OPEN /\ cb'.state = OPEN
         ELSE NewCall.received = Pending

\* A success judged in HALF_OPEN counts toward successThreshold: it adds one
\* to successCount, or closes the breaker when that reaches the threshold.
CountsTowardThreshold ==
  \/ cb'.state = HALF_OPEN /\ cb'.successCount = cb.successCount + 1
  \/ cb'.state = CLOSED /\ cb.successCount + 1 >= cb.successThreshold

\* C3 as claimed: when the state is OPEN and the break has elapsed, an
\* execute call moves the state to HALF_OPEN with successCount 0 and then
\* invokes its operation, and the call is not rejected; the outcome of that
\* call is judged in HALF_OPEN: when the probe fails the caller gets the
\* operation's own error, and when it succeeds the success counts toward
\* successThreshold.
C3_ProbeJudgedInHalfOpen ==
  /\ [][ProbeAdmitted]_vars
  /\ [][\A c \in DOMAIN calls' :
          (calls'[c].probe /\ SettleStep(c)) =>
            /\ JudgedCb.state = HALF_OPEN
            /\ calls'[c].settledIn = HALF_OPEN
            /\ FailStep(c) => calls'[c].received = Rejected(OpError(c))
            /\ SuccessStep(c) => CountsTowardThreshold]_vars

\* C3, amended: the call is admitted in HALF_OPEN as claimed, and its outcome
\* is judged in the state the breaker is in when the operation settles.  A
\* failing probe gives the caller the operation's own error in every state.
\* A succeeding probe counts toward successThreshold when the state is still
\* HALF_OPEN; when the outcome of another call has taken the state to OPEN
\* or to CLOSED meanwhile, the success adds one to successfulCalls and
\* changes nothing else.
C3_ProbeBeforeOutcome ==
  /\ [][ProbeAdmitted]_vars
  /\ [][\A c \in DOMAIN calls' :
          (calls'[c].probe /\ SettleStep(c)) =>
            /\ calls'[c].settledIn = JudgedCb.state
            /\ FailStep(c) => calls'[c].received = Rejected(OpError(c))
            /\ SuccessStep(c) =>
                 /\ calls'[c].received = Resolved(OpValue(c))
                 /\ IF cb.state = HALF_OPEN
                      THEN CountsTowardThreshold
                      ELSE /\ cb' = [cb EXCEPT !.successfulCalls = @ + 1]
                           /\ notified' = notified]_vars

\* A probe was admitted in HALF_OPEN, the failure of a call admitted earlier
\* reopened the breaker, and the probe has succeeded since: it was judged in
\* OPEN, the caller has its value, and the breaker is still OPEN with
\* successCount 0.
C3_Witness ==
  \E c \in DOMAIN calls :
    /\ calls[c].probe
    /\ calls[c].admittedIn = HALF_OPEN
    /\ calls[c].settledIn = OPEN
    /\ calls[c].invoked = 1
    /\ calls[c].received = Resolved(OpValue(c))
    /\ cb.state = OPEN
    /\ cb.successCount = 0
    /\ cb.successfulCalls = 1

\* C4: a call that fails while the state is HALF_OPEN takes the breaker to
\* OPEN in that step, whatever successCount was, and leaves failureCount and
\* successCount 0.
C4_ProbeFailureReopens ==
  [][\A c \in DOMAIN calls' :
       (JudgedCb.state = HALF_OPEN /\ FailStep(c)) =>
         /\ cb'.state = OPEN
         /\ cb'.failureCount = 0
         /\ cb'.successCount = 0]_vars

\* With successThreshold 2, a probe succeeded and then a call failed in
\* HALF_OPEN: the breaker is OPEN again with both counters 0.
C4_Witness ==
  /\ cb.state = OPEN
  /\ cb.successThreshold = 2
  /\ cb.successfulCalls > 0
  /\ cb.successCount = 0
  /\ \E c, d \in DOMAIN calls :
       /\ calls[c].settledIn = HALF_OPEN /\ calls[c].produced.kind = "value"
       /\ calls[d].settledIn = HALF_OPEN /\ calls[d].produced.kind = "error"

\* C5: while HALF_OPEN, a success that is not yet the successThreshold-th
\* since HALF_OPEN was entered leaves the state HALF_OPEN; the
\* successThreshold-th takes it to CLOSED with failureCount 0, successCount 0
\* and lastError cleared.
C5_ClosesAtThreshold ==
  /\ [](cb.state = HALF_OPEN => hist.succs < cb.successThreshold)
  /\ [][\A c \in DOMAIN calls :
          (cb.state = HALF_OPEN /\ SuccessStep(c)) =>
            IF hist.succs + 1 < cb.successThreshold
              THEN cb'.state = HALF_OPEN
              ELSE /\ cb'.state = CLOSED
                   /\ cb'.failureCount = 0
                   /\ cb'.successCount = 0
                   /\ cb'.lastError = Undefined]_vars

\* With successThreshold 2, two successes in HALF_OPEN have closed a breaker
\* that had failed.
C5_Witness ==
  /\ cb.state = CLOSED
  /\ cb.successThreshold = 2
  /\ cb.failedCalls > 0
  /\ cb.lastError = Undefined
  /\ Cardinality({c \in DOMAIN calls :
        calls[c].settledIn = HALF_OPEN /\ calls[c].produced.kind = "value"}) = 2

\* The state changes the breaker may make.
Transitions ==
  {<<CLOSED, OPEN>>, <<OPEN, HALF_OPEN>>, <<HALF_OPEN, CLOSED>>, <<HALF_OPEN, OPEN>>}

\* C6: the breaker starts CLOSED; every change of state that a step makes,
\* in the admission of a call and in the judgment of an operation, is one of
\* the four changes of Transitions; and the states the observer is told of,
\* starting from CLOSED, follow one another by these changes.
C6_OnlyFourTransitions ==
  /\ (cb # NoBreaker => cb.state = CLOSED)
  /\ [][/\ JudgedCb.state # cb.state =>
            <<cb.state, JudgedCb.state>> \in Transitions
        /\ cb'.state # JudgedCb.state =>
            <<JudgedCb.state, cb'.state>> \in Transitions]_vars
  /\ [](\A i \in DOMAIN notified :
          <<IF i = 1 THEN CLOSED ELSE notified[i - 1].state, notified[i].state>>
            \in Transitions)

\* The breaker has opened, probed and recovered, with calls overlapping.
C6_Witness ==
  /\ cb.state = CLOSED
  /\ Len(notified) = 3
  /\ \E c \in DOMAIN calls : calls[c].admittedIn # calls[c].settledIn /\ calls[c].settledIn # "none"

\* C7: every execute call has invoked its operation exactly once if it was
\* admitted (the state was CLOSED or HALF_OPEN after its probe check) and
\* never if it was rejected, at the call and at every later moment.
C7_InvokedAtMostOnce ==
  \A c \in DOMAIN calls :
    /\ calls[c].invoked \in {0, 1}
    /\ calls[c].admittedIn \in {CLOSED, HALF_OPEN} <=> calls[c].invoked = 1
    /\ IsRejected(calls[c]) => calls[c].invoked = 0

\* A call failed, the next was rejected, and a later call was admitted and
\* has failed too: each operation was invoked once, the rejected one never.
C7_Witness ==
  /\ Len(calls) = 3
  /\ calls[1].produced.kind = "error" /\ calls[1].invoked = 1
  /\ IsRejected(calls[2]) /\ calls[2].invoked = 0
  /\ calls[3].produced.kind = "error" /\ calls[3].invoked = 1

\* C8: the caller of every admitted call whose operation has settled has
\* received what the operation produced: its value, or its error object.
C8_OutcomeUnchanged ==
  \A c \in DOMAIN calls :
    calls[c].produced # Pending =>
      /\ calls[c].received = calls[c].produced
      /\ calls[c].received \in OpOutcomes(c)

\* One call's failure opened the breaker and a probe's success closed it
\* again; both callers have received what their operations produced.
C8_Witness ==
  /\ cb.state = CLOSED
  /\ \E c, d \in DOMAIN calls :
       /\ calls[c].settledIn = CLOSED
       /\ calls[c].received = Rejected(OpError(c))
       /\ calls[d].settledIn = HALF_OPEN
       /\ calls[d].received = Resolved(OpValue(d))

\* C9: an execute call throws a CircuitOpenError exactly when the state is
\* OPEN after its probe check, which is exactly when it does not invoke its
\* operation; every other call that fails gives its caller the operation's
\* own error, which is no CircuitOpenError.
C9_OpenErrorIffRejected ==
  /\ [][ExecuteStep =>
          /\ IsRejected(NewCall) <=> (cb.state = OPEN /\ ~BreakElapsed)
          /\ IsRejected(NewCall) <=> NewCall.invoked = 0]_vars
  /\ [](\A c \in DOMAIN calls :
          /\ IsRejected(calls[c]) <=> calls[c].admittedIn = OPEN
          /\ (calls[c].received.kind = "error" /\ ~IsRejected(calls[c])) =>
               /\ calls[c].invoked = 1
               /\ calls[c].received.error = OpError(c)
               /\ calls[c].received.error.name # "CircuitOpenError")

\* Of three calls, one was rejected with a CircuitOpenError and two failed
\* with their operations' errors.
C9_Witness ==
  /\ Cardinality({c \in DOMAIN calls : IsRejected(calls[c])}) = 1
  /\ Cardinality({c \in DOMAIN calls :
        calls[c].received = Rejected(OpError(c))}) = 2

\* C10 as claimed: the cause of every CircuitOpenError thrown by execute is
\* the error of the failure that made the last transition to OPEN.
C10_CauseIsOpeningError ==
  [][(ExecuteStep /\ IsRejected(NewCall)) =>
       NewCall.received.error.cause = hist.openCause]_vars

\* C10, amended: the cause of every CircuitOpenError thrown by execute is the
\* error of the operation that failed last; it is the error of the failure
\* that made the last transition to OPEN when no operation has failed since
\* that transition.
C10_CauseIsLastFailure ==
  [][(ExecuteStep /\ IsRejected(NewCall)) =>
       /\ NewCall.received.error.cause = hist.lastFailed
       /\ hist.fails = 0 => NewCall.received.error.cause = hist.openCause]_vars

\* A call was rejected after an operation admitted before the breaker opened
\* had failed while it was OPEN: the cause is that later error.
C10_Witness ==
  /\ cb.state = OPEN
  /\ calls # <<>>
  /\ IsRejected(calls[Len(calls)])
  /\ hist.fails > 0
  /\ calls[Len(calls)].received.error.cause = hist.lastFailed
  /\ hist.lastFailed # hist.openCause

\* C11: whenever no admitted call is pending,
\* totalCalls = successfulCalls + failedCalls + rejectedCalls.
C11_MetricsAddUp ==
  (cb # NoBreaker /\ \A c \in DOMAIN calls : calls[c].received # Pending) =>
    cb.totalCalls = cb.successfulCalls + cb.failedCalls + cb.rejectedCalls

\* Three calls have ended, one in each way: a failure, a rejection, a
\* success.
C11_Witness ==
  /\ cb # NoBreaker
  /\ \A c \in DOMAIN calls : calls[c].received # Pending
  /\ cb.successfulCalls = 1
  /\ cb.failedCalls = 1
  /\ cb.rejectedCalls = 1
  /\ cb.totalCalls = 3

\* The states a step enters, in order: the one the admission of a call
\* enters, then the one the judgment of an operation enters.
Entered ==
  (IF JudgedCb.state # cb.state THEN <<JudgedCb.state>> ELSE <<>>)
    \o (IF cb'.state # JudgedCb.state THEN <<cb'.state>> ELSE <<>>)

\* C12: a registered observer is invoked once, with the new state, for every
\* change of the state that a step makes, and not at all by a step that
\* leaves the state unchanged; so the last state it was told of is the
\* current state.
C12_NotifiedOncePerChange ==
  /\ [][observer = "records" =>
          /\ Len(notified') = Len(notified) + Len(Entered)
          /\ SubSeq(notified', 1, Len(notified)) = notified
          /\ \A i \in DOMAIN Entered :
               notified'[Len(notified) + i].state = Entered[i]]_vars
  /\ []((observer = "records" /\ cb # NoBreaker) =>
          cb.state = IF notified = <<>> THEN CLOSED
                     ELSE notified[Len(notified)].state)

\* The observer was told of OPEN and of HALF_OPEN and of nothing else, while
\* one call failed, one was rejected and a probe succeeded below
\* successThreshold.
C12_Witness ==
  /\ observer = "records"
  /\ cb # NoBreaker
  /\ cb.state = HALF_OPEN
  /\ Len(notified) = 2
  /\ cb.rejectedCalls = 1
  /\ cb.successCount = 1

\* C13: when the state changes to OPEN, the observer's second argument is
\* the error of the operation whose failure is judged in that step; when it
\* changes to HALF_OPEN or CLOSED the second argument is undefined.
C13_OpenCarriesError ==
  [][observer = "records" =>
       \A i \in (Len(notified) + 1)..Len(notified') :
         LET told == notified'[i] IN
         IF told.state = OPEN
           THEN \E c \in DOMAIN calls' : FailStep(c) /\ told.error = OpError(c)
           ELSE told.error = Undefined]_vars

\* The observer was told of OPEN twice, from CLOSED and after a failed
\* probe, each time with the error of another call.
C13_Witness ==
  /\ observer = "records"
  /\ Len(notified) = 3
  /\ notified[1].state = OPEN
  /\ notified[2].error = Undefined
  /\ notified[3].state = OPEN
  /\ notified[1].error # Undefined
  /\ notified[3].error # Undefined
  /\ notified[1].error # notified[3].error

\* C14: while the state is OPEN and less than durationOfBreakInMs has passed
\* since it became OPEN, every step leaves it OPEN and invokes no operation.
C14_OpenForTheBreak ==
  /\ []((cb.state = OPEN /\ now < hist.since + cb.durationOfBreakInMs) =>
          hist.invoked = 0)
  /\ [][(cb.state = OPEN /\ now < hist.since + cb.durationOfBreakInMs) =>
          /\ cb'.state = OPEN
          /\ ExecuteStep => NewCall.invoked = 0
          /\ \A c \in DOMAIN calls : calls'[c].invoked = calls[c].invoked]_vars

\* With a break of 2 ms, a call made 1 ms after the breaker opened has been
\* rejected.
C14_Witness ==
  /\ cb.state = OPEN
  /\ cb.durationOfBreakInMs = 2
  /\ now = hist.since + 1
  /\ calls # <<>>
  /\ IsRejected(calls[Len(calls)])
  /\ hist.invoked = 0

\* An execute call made in the current state would be admitted.
WouldAdmit == execute(Machine, Returns).invoked = 1

\* C15 as claimed: after a call failed in HALF_OPEN at time t (the state is
\* OPEN since t), an execute call at or after t + durationOfBreakInMs is
\* admitted.
C15_ProbeAfterBreakFromReopening ==
  (cb.state = OPEN /\ hist.prev = HALF_OPEN
     /\ now >= hist.since + cb.durationOfBreakInMs) => WouldAdmit

\* C15, amended: a call that fails in HALF_OPEN at time t takes the state to
\* OPEN and sets the time of the last failure to t; while the state is OPEN
\* after that, an execute call is rejected before the time of the last
\* failure + durationOfBreakInMs (so before t + durationOfBreakInMs) and
\* admitted as a probe from then on; the time of the last failure is t as
\* long as no other operation has failed since.
C15_FailedProbeRestartsBreak ==
  /\ [][\A c \in DOMAIN calls' :
          (JudgedCb.state = HALF_OPEN /\ FailStep(c)) =>
            /\ cb'.state = OPEN
            /\ hist'.prev = HALF_OPEN
            /\ hist'.since = now
            /\ hist'.failedAt = now]_vars
  /\ []((cb.state = OPEN /\ hist.prev = HALF_OPEN) =>
          /\ hist.failedAt >= hist.since
          /\ hist.fails = 0 => hist.failedAt = hist.since
          /\ WouldAdmit <=> now >= hist.failedAt + cb.durationOfBreakInMs)
  /\ [][(cb.state = OPEN /\ hist.prev = HALF_OPEN /\ ExecuteStep) =>
          IF now < hist.failedAt + cb.durationOfBreakInMs
            THEN IsRejected(NewCall) /\ cb'.state = OPEN
            ELSE /\ AdmittedCb.state = HALF_OPEN
                 /\ NewCall.probe
                 /\ NewCall.invoked = 1
                 /\ NewCall.admittedIn = HALF_OPEN
                 /\ ~ThrowStep => NewCall.received = Pending]_vars

\* A probe failed, the next probe was admitted after the new break and
\* succeeded, and the breaker has recovered.
C15_Witness ==
  /\ cb.state = CLOSED
  /\ Len(notified) = 5
  /\ notified[3].state = OPEN
  /\ notified[4].state = HALF_OPEN
  /\ cb.failedCalls = 2

\* C16: the breaker goes from CLOSED to OPEN only on the failure that makes
\* failureThreshold failures in a row, with no success settled between them;
\* and a success that settles while CLOSED leaves failureCount 0.
C16_ConsecutiveFailuresOpen ==
  [][/\ (cb.state = CLOSED /\ cb'.state = OPEN) =>
          hist.streak + 1 >= cb.failureThreshold
     /\ \A c \in DOMAIN calls :
          (cb.state = CLOSED /\ SuccessStep(c)) => cb'.failureCount = 0]_vars

\* C17: while CLOSED, a step takes the state away from CLOSED only if it is
\* the failure that makes failureThreshold failures since CLOSED was entered
\* (or the breaker constructed), however many successes have settled; and no
\* execute call is rejected.
C17_ClosedBelowThreshold ==
  /\ [](cb.state = CLOSED => hist.fails < cb.failureThreshold)
  /\ [][(cb.state = CLOSED /\ cb'.state # CLOSED) =>
          \E c \in DOMAIN calls' :
            FailStep(c) /\ hist.fails + 1 >= cb.failureThreshold]_vars
  /\ [][(cb.state = CLOSED /\ ExecuteStep) =>
          /\ ~IsRejected(NewCall)
          /\ NewCall.invoked = 1
          /\ ~ThrowStep => cb'.state = CLOSED]_vars

\* With failureThreshold 2, the breaker is CLOSED after a failure, a success
\* and a third call that was admitted.
C17_Witness ==
  /\ cb.state = CLOSED
  /\ cb.failureThreshold = 2
  /\ hist.fails = 1
  /\ hist.succs = 1
  /\ Len(calls) = 3
  /\ calls[3].received = Pending

\* The options the constructor was given have a value that is not positive.
BadOptions ==
  \/ hist.options.failureThreshold <= 0
  \/ hist.options.successThreshold <= 0
  \/ hist.options.durationOfBreakInMs <= 0

\* C18: with failureThreshold, successThreshold or durationOfBreakInMs <= 0
\* the constructor throws a CircuitArgumentError and there is no breaker;
\* with all three > 0 it throws nothing, and the breaker, before any call,
\* is CLOSED with totalCalls, successfulCalls, failedCalls and rejectedCalls 0.
C18_ConstructionValidatesOptions ==
  IF BadOptions
    THEN /\ ctorError # Undefined
         /\ ctorError.name = "CircuitArgumentError"
         /\ cb = NoBreaker
         /\ calls = <<>>
    ELSE /\ ctorError = Undefined
         /\ cb # NoBreaker
         /\ calls = <<>> =>
              /\ cb.state = CLOSED
              /\ cb.totalCalls = 0
              /\ cb.successfulCalls = 0
              /\ cb.failedCalls = 0
              /\ cb.rejectedCalls = 0

\* Construction with failureThreshold 0 and the other two options positive
\* has thrown and left no breaker.
C18_Witness ==
  /\ hist.options.failureThreshold = 0
  /\ hist.options.successThreshold > 0
  /\ hist.options.durationOfBreakInMs > 0
  /\ ctorError # Undefined
  /\ cb = NoBreaker

\* C19: no step lowers totalCalls, successfulCalls, failedCalls or
\* rejectedCalls, the steps that close or reopen the breaker included.
C19_MetricsNeverDecrease ==
  [][cb # NoBreaker =>
       /\ cb'.totalCalls >= cb.totalCalls
       /\ cb'.successfulCalls >= cb.successfulCalls
       /\ cb'.failedCalls >= cb.failedCalls
       /\ cb'.rejectedCalls >= cb.rejectedCalls]_vars

\* The breaker has opened, rejected a call and recovered to CLOSED, and the
\* counters still hold the calls made before the recovery.
C19_Witness ==
  /\ cb.state = CLOSED
  /\ Len(notified) = 3
  /\ notified[3].state = CLOSED
  /\ cb.failedCalls >= 1
  /\ cb.rejectedCalls >= 1
  /\ cb.successfulCalls >= 1
  /\ cb.totalCalls = Len(calls)

\* No operation has failed so far.
NoneFailed == \A c \in DOMAIN calls : calls[c].produced.kind # "error"

\* C20: when every execute call so far was started before any operation
\* settled and none has failed, the state is CLOSED, every settled call has
\* received the value of its own operation, and once all have settled
\* totalCalls and successfulCalls both equal the number of calls.
C20_ConcurrentSuccesses ==
  (cb # NoBreaker /\ hist.concurrent /\ NoneFailed) =>
    /\ cb.state = CLOSED
    /\ cb.totalCalls = Len(calls)
    /\ \A c \in DOMAIN calls :
         /\ calls[c].invoked = 1
         /\ calls[c].received \in {Pending, Resolved(OpValue(c))}
    /\ ~AllPending(calls) \/ cb.successfulCalls = 0
    /\ (\A c \in DOMAIN calls : calls[c].received # Pending) =>
         cb.successfulCalls = Len(calls)

\* Three calls were started before any settled and all three have succeeded.
C20_Witness ==
  /\ hist.concurrent
  /\ Len(calls) = MaxCalls
  /\ \A c \in DOMAIN calls : calls[c].received = Resolved(OpValue(c))
  /\ cb.state = CLOSED

\* C22: a step in which time passes changes no field of the breaker, makes
\* no call and no notification; and the state leaves OPEN only in an execute
\* call made when the break has elapsed, whose admission takes it to
\* HALF_OPEN.
C22_RecoveryIsLazy ==
  /\ [][now' # now => UNCHANGED <<cb, calls, notified>>]_vars
  /\ [][(cb.state = OPEN /\ (cb'.state # OPEN \/ JudgedCb.state # OPEN)) =>
          /\ ExecuteStep
          /\ BreakElapsed
          /\ now' = now
          /\ AdmittedCb.state = HALF_OPEN]_vars

\* The breaker is still OPEN two ticks after the break elapsed.
C22_Witness ==
  /\ cb.state = OPEN
  /\ cb.lastFailureTime + cb.durationOfBreakInMs + 2 <= now
  /\ hist.since = cb.lastFailureTime

\* C27: an execute call that is rejected adds one to rejectedCalls and one
\* to totalCalls and leaves every other field of the breaker as it was, and
\* the observer is not notified.
C27_RejectionOnlyCounts ==
  [][(ExecuteStep /\ IsRejected(NewCall)) =>
       /\ cb' = [cb EXCEPT !.rejectedCalls = @ + 1, !.totalCalls = @ + 1]
       /\ notified' = notified
       /\ now' = now]_vars

\* Two calls in a row have been rejected, and the break still runs from the
\* failure that opened the breaker.
C27_Witness ==
  /\ cb.state = OPEN
  /\ cb.rejectedCalls = 2
  /\ Len(calls) = 3
  /\ IsRejected(calls[2])
  /\ IsRejected(calls[3])
  /\ cb.lastFailureTime = hist.failedAt
  /\ cb.lastFailureTime < now

\* C28: a success that settles while the state is CLOSED adds one to
\* successfulCalls and leaves every other field of the breaker as it was
\* (totalCalls was counted when the call was admitted), and the observer is
\* not notified.
C28_SuccessInClosedOnlyCounts ==
  [][\A c \in DOMAIN calls :
       (cb.state = CLOSED /\ SuccessStep(c)) =>
         /\ cb' = [cb EXCEPT !.successfulCalls = @ + 1]
         /\ notified' = notified]_vars

\* A success has settled in CLOSED after a failure, and failureCount still
\* holds the failure.
C28_Witness ==
  /\ cb.state = CLOSED
  /\ cb.failureCount = 1
  /\ cb.lastError # Undefined
  /\ Len(calls) = 2
  /\ calls[1].produced.kind = "error"
  /\ calls[2].produced.kind = "value"
  /\ calls[2].settledIn = CLOSED
  /\ hist.streak = 0

\* C29: successCount is 0 whenever the state is not HALF_OPEN and
\* failureCount is 0 whenever the state is not CLOSED; successCount is 0
\* after every step that enters or leaves HALF_OPEN, and failureCount is 0
\* after every step that enters OPEN or recovers to CLOSED.
C29_CountersZeroOutsideTheirState ==
  /\ [](cb # NoBreaker =>
          /\ cb.state # HALF_OPEN => cb.successCount = 0
          /\ cb.state # CLOSED => cb.failureCount = 0)
  /\ [][(cb # NoBreaker /\ cb'.state # cb.state) =>
          /\ HALF_OPEN \in {cb.state, cb'.state} => cb'.successCount = 0
          /\ cb'.state \in {OPEN, CLOSED} => cb'.failureCount = 0]_vars

\* With successThreshold 2, a probe failed after a success had settled in
\* HALF_OPEN: the breaker is OPEN again.
C29_Witness ==
  /\ cb.state = OPEN
  /\ cb.successThreshold = 2
  /\ hist.prev = HALF_OPEN
  /\ cb.successCount = 0
  /\ cb.failureCount = 0
  /\ \E c \in DOMAIN calls :
       /\ calls[c].settledIn = HALF_OPEN
       /\ calls[c].produced.kind = "value"

\* C30: lastError is absent after a HALF_OPEN->CLOSED transition; a step
\* that settles a failure sets it to that failure's error; every other step
\* (the OPEN->HALF_OPEN transition, a success in HALF_OPEN below
\* successThreshold, a success in CLOSED or OPEN, a rejection, a tick)
\* leaves it unchanged.
C30_LastErrorClearedOnlyByRecovery ==
  [][cb # NoBreaker =>
       IF \E c \in DOMAIN calls' : FailStep(c)
         THEN \A c \in DOMAIN calls' :
                FailStep(c) => cb'.lastError = calls'[c].produced.error
       ELSE IF cb.state = HALF_OPEN /\ cb'.state = CLOSED
         THEN cb'.lastError = Undefined
       ELSE cb'.lastError = cb.lastError]_vars

\* With successThreshold 2 the breaker has fully recovered: the first
\* success in HALF_OPEN kept lastError, the second cleared it.
C30_Witness ==
  /\ cb.state = CLOSED
  /\ cb.successThreshold = 2
  /\ hist.prev = HALF_OPEN
  /\ cb.lastError = Undefined
  /\ hist.lastFailed # Undefined
  /\ cb.successfulCalls = 2

\* C26: a CircuitOpenError built from a cause has name CircuitOpenError and
\* that very cause; built from an error object its message is "Circuit
\* breaker is open caused by: " followed by the cause's message, also when
\* that message is empty; built from undefined or null its message is
\* "Circuit breaker is open caused by: Service is not available".
C26_OpenErrorMessageAndCause ==
  thrown.error # Undefined =>
    /\ thrown.error.name = "CircuitOpenError"
    /\ thrown.error.cause = thrown.cause
    /\ thrown.cause \in {Undefined, Null} =>
         thrown.error.message =
           "Circuit breaker is open caused by: Service is not available"
    /\ thrown.cause \notin {Undefined, Null} =>
         thrown.error.message =
           "Circuit breaker is open caused by: " \o thrown.cause.message

\* A CircuitOpenError has been built from an Error with an empty message.
C26_Witness ==
  /\ thrown.cause \notin {Undefined, Null}
  /\ thrown.cause.name = "Error"
  /\ thrown.cause.message = ""
  /\ thrown.error # Undefined
  /\ thrown.error.message = "Circuit breaker is open caused by: "

\* failureThreshold and successThreshold are both 1.
MinimalThresholds == cb.failureThreshold = 1 /\ cb.successThreshold = 1

\* With the minimal thresholds a failure in CLOSED opens the breaker, and the
\* first execute call after the break has elapsed is admitted, takes the
\* breaker to HALF_OPEN and has the observer notified of HALF_OPEN.
OpensAndProbes ==
  /\ \A c \in DOMAIN calls' :
       (JudgedCb.state = CLOSED /\ FailStep(c)) => cb'.state = OPEN
  /\ (cb.state = OPEN /\ BreakElapsed /\ ExecuteStep) =>
       /\ NewCall.invoked = 1
       /\ NewCall.probe
       /\ AdmittedCb.state = HALF_OPEN
       /\ observer = "records" =>
            /\ Len(notified') > Len(notified)
            /\ SubSeq(notified', 1, Len(notified) + 1) =
                 Append(notified, [state |-> HALF_OPEN, error |-> Undefined])
            /\ ~ThrowStep => Len(notified') = Len(notified) + 1

\* The settlement of a probing call closes the breaker and has the observer
\* notified of CLOSED, right after its notification of HALF_OPEN.
ClosesAndNotifies ==
  /\ cb'.state = CLOSED
  /\ observer = "records" =>
       /\ notified # <<>>
       /\ notified[Len(notified)].state = HALF_OPEN
       /\ notified' = Append(notified, [state |-> CLOSED, error |-> Undefined])

\* C23 as claimed: with failureThreshold 1 and successThreshold 1, a failure
\* in CLOSED opens the breaker, and the first execute call after the break
\* has elapsed, whenever its operation succeeds, leaves the breaker CLOSED,
\* the observer having been notified of HALF_OPEN and then of CLOSED.
C23_ProbeSuccessAlwaysCloses ==
  [][(cb # NoBreaker /\ MinimalThresholds) =>
       /\ OpensAndProbes
       /\ \A c \in DOMAIN calls :
            (calls[c].probe /\ SuccessStep(c)) => ClosesAndNotifies]_vars

\* C23: the same, for a probing call whose operation succeeds while the state
\* is HALF_OPEN.
C23_ProbeSuccessInHalfOpenCloses ==
  [][(cb # NoBreaker /\ MinimalThresholds) =>
       /\ OpensAndProbes
       /\ \A c \in DOMAIN calls :
            (calls[c].probe /\ cb.state = HALF_OPEN /\ SuccessStep(c)) =>
              ClosesAndNotifies]_vars

\* With the minimal thresholds: one call failed, the next call was made
\* after the break, probed and succeeded, and the observer saw OPEN,
\* HALF_OPEN, CLOSED.
C23_Witness ==
  /\ cb.state = CLOSED
  /\ MinimalThresholds
  /\ Len(calls) = 2
  /\ calls[1].produced.kind = "error"
  /\ calls[2].probe
  /\ calls[2].received = Resolved(OpValue(2))
  /\ Len(notified) = 3
  /\ notified[1].state = OPEN
  /\ notified[2].state = HALF_OPEN
  /\ notified[3].state = CLOSED

\* The breaker of wrapped target t.
BreakerOf(t) == targets[t].breaker

\* The step calls a wrapped target: it adds call NewInvocation.
InvokeStep == Len(calls') = Len(calls) + 1
NewInvocation == calls'[Len(calls')]

\* The step settles the original's promise of call c.
ReturnStep(c) ==
  /\ c \in DOMAIN calls
  /\ calls[c].produced = Pending
  /\ calls'[c].produced # Pending

\* C24: a wrapped target keeps the one breaker it was given, and different
\* wrapped targets have different breakers: a call of one target whose
\* original fails leaves the state of every other target's breaker as it
\* was.
C24_OneBreakerPerTarget ==
  /\ [][\A t \in DOMAIN targets : targets'[t] = targets[t]]_vars
  /\ [][\A c \in DOMAIN calls : \A u \in DOMAIN targets :
          (ReturnStep(c) /\ calls'[c].produced.kind = "error"
             /\ u # calls[c].target) =>
            heap'[BreakerOf(u)].state = heap[BreakerOf(u)].state]_vars

\* C25: a call of a wrapped target t with args does to t's breaker what
\* execute does and touches no other breaker; when the breaker is OPEN and
\* the break has not elapsed, the original is not invoked and the call
\* throws the CircuitOpenError of the breaker's lastError; otherwise the
\* original is invoked once with args, and when its promise settles the
\* breaker changes as attemptToExecute changes it and the caller receives
\* the original's result or error unchanged.
C25_AdapterForwardsToExecute ==
  /\ [][InvokeStep =>
          LET r == NewInvocation
              b == BreakerOf(r.target) IN
          /\ heap' = [heap EXCEPT ![b] =
               execute(MachineOf(heap[b]),
                       IF r.produced = Pending THEN Returns
                       ELSE Throws(r.produced.error)).b]
          /\ IF heap[b].state = OPEN
                 /\ ~(heap[b].lastFailureTime + heap[b].durationOfBreakInMs <= now)
               THEN /\ r.invoked = 0
                    /\ r.passed = NoArgs
                    /\ r.received = Rejected(CircuitOpenError(heap[b].lastError))
               ELSE /\ r.invoked = 1
                    /\ r.passed = r.args
                    /\ r.received = r.produced]_vars
  /\ [][\A c \in DOMAIN calls :
          ReturnStep(c) =>
            LET b == BreakerOf(calls[c].target)
                produced == calls'[c].produced IN
            /\ produced \in {Resolved(OriginalValue(calls[c].target, calls[c].args)),
                              Rejected(OpError(c))}
            /\ calls'[c].received = produced
            /\ heap' = [heap EXCEPT
                          ![b] = attemptToExecute(MachineOf(heap[b]), produced).m.b]]_vars

\* A decorated method was called twice: the first call was admitted, the
\* original got the arguments and failed, and the caller got its error; the
\* second call found the breaker OPEN and was rejected.
C25_Witness ==
  /\ Len(calls) = 2
  /\ calls[1].target = calls[2].target
  /\ targets[calls[1].target].kind = "method"
  /\ calls[1].passed = calls[1].args
  /\ calls[1].received = Rejected(OpError(1))
  /\ calls[2].invoked = 0
  /\ calls[2].received = Rejected(CircuitOpenError(OpError(1)))

\* The pending operations that are going to fail (SpecRecovery).
Doomed(cs) == {c \in DOMAIN cs : cs[c].fails}

\* The operations are healthy and no pending operation is going to fail.
Settled == healthy /\ Doomed(calls) = {}

\* How far the breaker is from CLOSED: in HALF_OPEN the successes still
\* needed, in OPEN more than that by what is left of the break.
Distance ==
  IF cb.state = CLOSED THEN 0
  ELSE IF cb.state = HALF_OPEN THEN cb.successThreshold - cb.successCount
  ELSE LET left == cb.lastFailureTime + cb.durationOfBreakInMs - now IN
       cb.successThreshold + 1 + (IF left > 0 THEN left ELSE 0)

\* The run was cut before the breaker could recover: no execute call is
\* left and no operation is pending, or the clock has stopped before the end
\* of the break.
CutShort ==
  \/ cb.totalCalls = MaxCalls /\ calls = <<>>
  \/ now = MaxTime /\ cb.state = OPEN /\ ~BreakElapsed

\* Steps of SpecRecovery: an execute call, one that is let through, and the
\* settlement of a pending operation.
CallStep == cb'.totalCalls = cb.totalCalls + 1
AdmitStep == CallStep /\ Len(calls') = Len(calls) + 1
SettlementStep == Len(calls') = Len(calls) - 1

\* C21: when from some point on the operations are healthy, so that every
\* operation invoked from then on succeeds, the breaker is CLOSED from some
\* point on, for good, unless the run is cut short.  It gets there step by
\* step: while the operations are healthy the pending operations that are
\* going to fail only get fewer, and once there is none no step takes the
\* breaker further from CLOSED, a unit of time during the break, an execute
\* call after it and a settlement in HALF_OPEN each take it nearer, and an
\* execute call in HALF_OPEN is let through.
C21_RecoversWhenHealthy ==
  /\ <>[]healthy => <>[](cb.state = CLOSED \/ CutShort)
  /\ [][(healthy /\ healthy') =>
          Cardinality(Doomed(calls')) <= Cardinality(Doomed(calls))]_vars
  /\ [][(Settled /\ Settled') =>
          /\ Distance' <= Distance
          /\ (now' # now /\ cb.state = OPEN /\ ~BreakElapsed) =>
               Distance' < Distance
          /\ (CallStep /\ cb.state = OPEN /\ BreakElapsed) =>
               Distance' < Distance /\ AdmitStep
          /\ (CallStep /\ cb.state = HALF_OPEN) => AdmitStep
          /\ (SettlementStep /\ cb.state = HALF_OPEN) =>
               Distance' < Distance]_vars

\* The breaker is CLOSED again after a failure that opened it, at a later
\* time than its construction: a probe made while the operations were
\* healthy has succeeded, and lastError has been cleared by the recovery.
C21_Witness ==
  /\ cb.state = CLOSED
  /\ healthy
  /\ cb.failedCalls > 0
  /\ cb.successfulCalls > 0
  /\ cb.lastStateChangeTime > 0
  /\ cb.lastError = Undefined
  /\ calls = <<>>


\* C31: during a HALF_OPEN period, from the step that enters HALF_OPEN until
\* the state is left, at most successThreshold operations are invoked, also
\* when execute calls overlap.
C31_LimitedProbes ==
  (cb # NoBreaker /\ cb.state = HALF_OPEN) =>
    hist.invoked <= cb.successThreshold


\* C32: exactly one judgment is applied per completed call.  Every step that
\* judges the operation of a call increments exactly one of successfulCalls
\* and failedCalls, by one, whatever the outcome and whatever the
\* onStateChange observer does when the judgment changes the state.
C32_OneJudgmentPerCall ==
  [][\A c \in DOMAIN calls' :
       SettleStep(c) =>
         \/ /\ cb'.successfulCalls = cb.successfulCalls + 1
            /\ cb'.failedCalls = cb.failedCalls
         \/ /\ cb'.successfulCalls = cb.successfulCalls
            /\ cb'.failedCalls = cb.failedCalls + 1]_vars


\* Two errors an operation can fail with, of different identity and message
\* (one message is empty), and the values lastError can then have.
OperationErrors == {OpError(1), OpError(2)}
LastErrors == OperationErrors \cup {Undefined}

\* What is left of the breaker's fields when the error is put aside: the
\* state, the two counters, the four metrics counters, the two times and the
\* options.
WithoutError(b) == [b EXCEPT !.lastError = Undefined]

\* The machine of a run that has seen other errors: lastError is e.
MachineWith(e) == [Machine EXCEPT !.b.lastError = e]

\* C33: all failures are equal.  Whatever error a failing operation carries,
\* and whatever errors the earlier failures carried, a step leaves the same
\* state, failureCount, successCount, metrics counters and times: an execute
\* call is rejected or admitted alike, and a settling operation is judged
\* alike.  Two runs that differ only in the error values therefore pass
\* through the same states and counters and reject the same calls.
C33_AllFailuresEqual ==
  [][/\ ExecuteStep =>
          \A le \in LastErrors, e \in OperationErrors :
            LET m == execute(MachineWith(le),
                             IF ThrowStep THEN Throws(e) ELSE Returns) IN
            /\ WithoutError(m.b) = WithoutError(cb')
            /\ (m.raised # Undefined) = IsRejected(NewCall)
            /\ m.invoked = NewCall.invoked
            /\ m.returned.kind = NewCall.produced.kind
     /\ \A c \in DOMAIN calls :
          /\ FailStep(c) =>
               \A le \in LastErrors, e \in OperationErrors :
                 LET r == attemptToExecute(MachineWith(le), Rejected(e)) IN
                 /\ WithoutError(r.m.b) = WithoutError(cb')
                 /\ r.received.kind = calls'[c].received.kind
          /\ SuccessStep(c) =>
               \A le \in LastErrors :
                 LET r == attemptToExecute(MachineWith(le), calls'[c].produced) IN
                 /\ WithoutError(r.m.b) = WithoutError(cb')
                 /\ r.received = calls'[c].received]_vars

\* Two operations have failed with errors that differ in identity and in
\* message, the second one opening the breaker.
C33_Witness ==
  /\ cb # NoBreaker
  /\ cb.state = OPEN
  /\ cb.failedCalls >= 2
  /\ \E c, d \in DOMAIN calls :
       /\ calls[c].produced.kind = "error"
       /\ calls[d].produced.kind = "error"
       /\ calls[c].produced.error.message # calls[d].produced.error.message
       /\ cb.lastError = calls[d].produced.error


\* C34: in every state between steps of the breaker, failureCount is at
\* least 0 and below failureThreshold, and successCount is at least 0 and
\* below successThreshold: a counter that reaches its threshold is reset in
\* the step that makes the transition.
C34_CountersBelowThresholds ==
  cb # NoBreaker =>
    /\ 0 <= cb.failureCount /\ cb.failureCount < cb.failureThreshold
    /\ 0 <= cb.successCount /\ cb.successCount < cb.successThreshold

\* The breaker has just left CLOSED for OPEN on the failure that brought
\* failureCount to a threshold of 2, and the counter reads 0.
C34_Witness ==
  /\ cb # NoBreaker
  /\ cb.failureThreshold = 2
  /\ cb.state = OPEN
  /\ hist.prev = CLOSED
  /\ cb.failedCalls >= 2
  /\ cb.failureCount = 0


\* The message of a breaker-open error that has no cause.
DefaultMessage == "Circuit breaker is open caused by: Service is not available"

\* C35, as stated: whenever the state is OPEN lastError is set, and every
\* breaker-open error raised by execute carries a cause and has another
\* message than the default one.
C35_OpenHasCause ==
  /\ (cb # NoBreaker /\ cb.state = OPEN) => cb.lastError # Undefined
  /\ \A c \in DOMAIN calls :
       IsRejected(calls[c]) =>
         /\ calls[c].received.error.cause # Undefined
         /\ calls[c].received.error.message # DefaultMessage

\* C35, amended: whenever the state is OPEN, lastError is what the operation
\* that failed last rejected with, which is undefined when that operation
\* rejected bare; every breaker-open error raised by execute carries that
\* value as its cause, and has the default message exactly when it is
\* undefined.
C35_OpenHasLastFailure ==
  /\ []((cb # NoBreaker /\ cb.state = OPEN) =>
          /\ hist.failedAt = cb.lastFailureTime
          /\ cb.lastError = hist.lastFailed)
  /\ [][(ExecuteStep /\ IsRejected(NewCall)) =>
          /\ NewCall.received.error.cause = hist.lastFailed
          /\ (NewCall.received.error.message = DefaultMessage)
               <=> (hist.lastFailed = Undefined)
          /\ hist.lastFailed # Undefined =>
               NewCall.received.error.message =
                 "Circuit breaker is open caused by: " \o hist.lastFailed.message]_vars

\* The breaker was opened by an operation that rejected bare, and the call
\* after it was rejected with the default message and no cause.
C35_Witness ==
  /\ cb # NoBreaker
  /\ cb.state = OPEN
  /\ cb.lastError = Undefined
  /\ \E c \in DOMAIN calls :
       /\ IsRejected(calls[c])
       /\ calls[c].received.error.cause = Undefined
       /\ calls[c].received.error.message = DefaultMessage
  /\ \E c \in DOMAIN calls : calls[c].produced = Rejected(Undefined)


\* C36: an operation that fails while the state is OPEN (its call was
\* admitted before the breaker opened) leaves the state OPEN, notifies
\* nobody and leaves failureCount and successCount at 0; it increments
\* failedCalls, replaces lastError by its error and sets lastFailureTime to
\* the time of the failure.  After such a failure, an execute call made
\* while OPEN is a probe only from durationOfBreakInMs after it, and is
\* rejected before.
C36_LateFailureRestartsBreak ==
  /\ [][\A c \in DOMAIN calls' :
          (JudgedCb.state = OPEN /\ FailStep(c)) =>
            /\ c \in DOMAIN calls
            /\ calls[c].admittedIn # OPEN
            /\ cb'.state = OPEN
            /\ notified' = notified
            /\ cb'.failureCount = 0 /\ cb'.successCount = 0
            /\ cb'.failedCalls = cb.failedCalls + 1
            /\ cb'.lastError = calls'[c].produced.error
            /\ cb'.lastFailureTime = now
            /\ hist'.failedAt = now /\ hist'.fails = hist.fails + 1
            /\ cb'.totalCalls = cb.totalCalls
            /\ cb'.successfulCalls = cb.successfulCalls
            /\ cb'.rejectedCalls = cb.rejectedCalls]_vars
  /\ [][(cb.state = OPEN /\ hist.fails > 0 /\ ExecuteStep) =>
          IF now < hist.failedAt + cb.durationOfBreakInMs
            THEN IsRejected(NewCall) /\ cb'.state = OPEN
            ELSE /\ AdmittedCb.state = HALF_OPEN
                 /\ NewCall.probe
                 /\ NewCall.invoked = 1
                 /\ ~ThrowStep => NewCall.received = Pending]_vars

\* An operation admitted in CLOSED failed while the breaker was OPEN, later
\* than the failure that opened it, and a call made when the first break had
\* elapsed, but not the one restarted by the late failure, was rejected.
C36_Witness ==
  /\ cb.state = OPEN
  /\ hist.fails > 0
  /\ hist.failedAt > hist.since
  /\ \E c \in DOMAIN calls :
       /\ calls[c].admittedIn = CLOSED
       /\ calls[c].settledIn = OPEN
       /\ calls[c].produced.kind = "error"
       /\ cb.lastError = calls[c].produced.error
  /\ now >= hist.since + cb.durationOfBreakInMs
  /\ IsRejected(calls[Len(calls)])
  /\ cb.lastStateChangeTime = hist.since


\* C37: an outcome is judged against the state in which the operation
\* settles, whatever the state its call was admitted in.  A success that
\* settles in HALF_OPEN counts towards successThreshold and closes the
\* breaker when it reaches it; a failure that settles in HALF_OPEN reopens
\* it; a failure that settles in CLOSED counts towards failureThreshold (and
\* opens the breaker when it reaches it); a success that settles in OPEN
\* changes successfulCalls only.
C37_JudgedWhereSettled ==
  [][\A c \in DOMAIN calls' :
       /\ (SuccessStep(c) /\ cb.state = HALF_OPEN) =>
            IF cb.successCount + 1 >= cb.successThreshold
              THEN cb'.state = CLOSED /\ cb'.successCount = 0
              ELSE cb'.state = HALF_OPEN
                   /\ cb'.successCount = cb.successCount + 1
       /\ (FailStep(c) /\ JudgedCb.state = HALF_OPEN) =>
            cb'.state = OPEN /\ cb'.lastError = OpError(c)
       /\ (FailStep(c) /\ JudgedCb.state = CLOSED) =>
            IF JudgedCb.failureCount + 1 >= cb.failureThreshold
              THEN cb'.state = OPEN /\ cb'.failureCount = 0
              ELSE cb'.state = CLOSED
                   /\ cb'.failureCount = JudgedCb.failureCount + 1
       /\ (SuccessStep(c) /\ cb.state = OPEN) =>
            /\ cb' = [cb EXCEPT !.successfulCalls = @ + 1]
            /\ notified' = notified]_vars

\* A call admitted in CLOSED succeeded while the breaker was HALF_OPEN and
\* closed it (successThreshold 1), and the probe call, admitted in HALF_OPEN,
\* failed after that, in CLOSED, and opened it again (failureThreshold 1).
C37_Witness ==
  /\ cb.state = OPEN
  /\ cb.successThreshold = 1 /\ cb.failureThreshold = 1
  /\ \E c, d \in DOMAIN calls :
       /\ calls[c].admittedIn = CLOSED
       /\ calls[c].settledIn = HALF_OPEN
       /\ calls[c].produced.kind = "value"
       /\ calls[d].admittedIn = HALF_OPEN
       /\ calls[d].settledIn = CLOSED
       /\ calls[d].produced.kind = "error"
       /\ cb.lastError = calls[d].produced.error


\* No operation has succeeded.
NoneSucceeded(cs) == \A c \in DOMAIN cs : cs[c].produced.kind # "value"

\* No call of cs was admitted in HALF_OPEN: no probe was made.
NoProbe(cs) == \A c \in DOMAIN cs : cs[c].admittedIn # HALF_OPEN

\* C38, as stated: when the operations of calls admitted while CLOSED all
\* fail, the failureThreshold-th failure to settle takes the breaker to OPEN
\* with one notification, and every failure that settles after it finds the
\* state OPEN and leaves it OPEN, with failureCount 0 and no notification,
\* and increments failedCalls: the breaker opens once.
C38_OpensOnceUnderLoad ==
  [][\A c \in DOMAIN calls' :
       (FailStep(c) /\ calls'[c].admittedIn = CLOSED /\ NoneSucceeded(calls')) =>
         /\ cb'.failedCalls = cb.failedCalls + 1
         /\ cb'.failedCalls = cb.failureThreshold =>
              /\ cb.state = CLOSED /\ cb'.state = OPEN
              /\ cb'.failureCount = 0
              /\ hist'.openCause = OpError(c)
         /\ cb'.failedCalls > cb.failureThreshold =>
              /\ cb.state = OPEN /\ cb'.state = OPEN
              /\ cb'.failureCount = 0
              /\ notified' = notified]_vars

\* C38, amended: when the operations of calls admitted while CLOSED all fail
\* and no execute call is admitted as a probe meanwhile, the failures below
\* failureThreshold leave the breaker CLOSED, the failureThreshold-th failure
\* to settle takes it to OPEN with one notification that carries that
\* failure's error, and every failure that settles after it leaves the state
\* OPEN, failureCount at 0 and the observer alone, and increments
\* failedCalls: the breaker opens once.
C38_OpensOnceWithoutProbe ==
  /\ [][\A c \in DOMAIN calls' :
          (FailStep(c) /\ NoProbe(calls') /\ NoneSucceeded(calls')) =>
            /\ cb'.failedCalls = cb.failedCalls + 1
            /\ IF cb'.failedCalls < cb.failureThreshold
                 THEN /\ cb.state = CLOSED /\ cb'.state = CLOSED
                      /\ cb'.failureCount = cb'.failedCalls
                      /\ notified' = notified
               ELSE IF cb'.failedCalls = cb.failureThreshold
                 THEN /\ cb.state = CLOSED /\ cb'.state = OPEN
                      /\ cb'.failureCount = 0
                      /\ hist'.openCause = OpError(c)
                      /\ observer = "records" =>
                           notified' = <<[state |-> OPEN, error |-> OpError(c)]>>
               ELSE /\ cb.state = OPEN /\ cb'.state = OPEN
                    /\ cb'.failureCount = 0
                    /\ notified' = notified]_vars
  /\ []((cb # NoBreaker /\ NoProbe(calls) /\ NoneSucceeded(calls)
           /\ observer = "records") =>
          Len(notified) = IF cb.failedCalls >= cb.failureThreshold THEN 1 ELSE 0)

\* Three calls admitted in CLOSED have all failed against a threshold of 2:
\* the observer was told once, with the error of the second failure, and the
\* third failure has replaced lastError.
C38_Witness ==
  /\ cb # NoBreaker
  /\ cb.failureThreshold = 2
  /\ observer = "records"
  /\ Len(calls) = 3
  /\ \A c \in DOMAIN calls :
       calls[c].admittedIn = CLOSED /\ calls[c].produced.kind = "error"
  /\ cb.state = OPEN /\ cb.failureCount = 0 /\ cb.failedCalls = 3
  /\ Len(notified) = 1
  /\ notified[1].state = OPEN
  /\ notified[1].error # cb.lastError


\* The admitted calls whose operation has not settled.
PendingCalls == {c \in DOMAIN calls : calls[c].received = Pending}

\* C39: in every reachable state, totalCalls minus the sum of
\* successfulCalls, failedCalls and rejectedCalls is the number of admitted
\* calls whose operation has not settled yet; the sum never exceeds
\* totalCalls.
C39_UnsettledCallsAccountedFor ==
  cb # NoBreaker =>
    /\ cb.totalCalls - (cb.successfulCalls + cb.failedCalls + cb.rejectedCalls)
         = Cardinality(PendingCalls)
    /\ cb.successfulCalls + cb.failedCalls + cb.rejectedCalls <= cb.totalCalls

\* Of three calls one has failed and opened the breaker, one was rejected
\* and one, admitted before the breaker opened, is still pending.
C39_Witness ==
  /\ cb # NoBreaker
  /\ cb.totalCalls = 3
  /\ cb.failedCalls = 1
  /\ cb.rejectedCalls = 1
  /\ cb.successfulCalls = 0
  /\ Cardinality(PendingCalls) = 1

====
